---- MODULE Spec2Model ----
(***************************************************************************)
(* Verification model of the JUCE audio service's EDL engine:              *)
(*   EdlStore (validation, revision, atomic replace/get),                  *)
(*   EventBroadcaster, and the gRPC handlers UpdateEdl, RenderEdlWindow    *)
(*   and Subscribe of AudioEngineServiceImpl.                              *)
(* Strings built by concatenation in the C++ code (error messages, JSON,   *)
(* hashes) are modelled as sequences of strings.                           *)
(***************************************************************************)
EXTENDS Integers, Sequences, FiniteSets, TLC

VARIABLES
    pc,            \* position of every thread in its handler / store method
    mutex_,        \* EdlStore::mutex_ : the thread holding it, or NoThread
    current_,      \* EdlStore::current_ : std::optional<Snapshot>
    curTag,        \* history: which commit wrote each field of current_
    commits,       \* history: number of replace calls that stored a snapshot
    returnedMax,   \* history: newest commit whose replace has returned
    req,           \* the request a thread's running call was given
    newSnapshot,   \* replace: local newSnapshot
    out_snapshot,  \* replace: the caller's out_snapshot (UpdateEdl: snapshot)
    error,         \* the caller's error string
    replaceOk,     \* value returned by the thread's last replace
    got,           \* value returned by the thread's last get(), with its tags
    hasEdlResult,  \* value returned by the thread's last hasEdl()
    myCommit,      \* history: the commit number of the thread's replace
    getFloor,      \* history: returnedMax when the thread's get() started
    bcMutex,       \* EventBroadcaster::mutex_
    subscribers_,  \* EventBroadcaster::subscribers_
    bcPending,     \* broadcast: writers the range-for has not visited yet
    bcEvent,       \* broadcast: the event being written
    bcLog,         \* history: <<writer, event>> a broadcast of this call wrote
    bcOrder,       \* history: the order in which broadcasts took the mutex
    stream,        \* events written to each ServerWriter, in order
    status,        \* grpc::Status a thread's last call returned
    response,      \* UpdateEdlResponse
    render,        \* RenderEdlWindow / renderTimeRange locals
    outFile,       \* the file at request->out_path()
    updates,       \* number of UpdateEdl / replace calls started so far
    beats,         \* heartbeats a Subscribe call has written
    cancelled,     \* context->IsCancelled() of a thread's streaming call
    readerCache_,  \* EdlRenderer::readerCache_ : path -> reader, 0 when absent
    readerHeap,    \* the readers created for each path and those destroyed
    readerLocal,   \* getReader: filePath, it, reader and rawReader of a call
    lookups,       \* number of getReader calls started so far
    clipTiming,    \* validateClip: the 64-bit timing fields of the clip it checks
    mix,           \* renderToBuffer called directly: its arguments and its buffer
    unlinked,      \* media paths whose file was deleted after the EDL was validated
    legacy         \* LoadFile and Render: currentAudioSource and the call in progress

vars == <<pc, mutex_, current_, curTag, commits, returnedMax, req, newSnapshot,
          out_snapshot, error, replaceOk, got, hasEdlResult, myCommit, getFloor,
          bcMutex, subscribers_, bcPending, bcEvent, bcLog, bcOrder, stream, status,
          response, render, outFile,
          updates, beats, cancelled, readerCache_, readerHeap, readerLocal, lookups,
          clipTiming, mix, unlinked, legacy>>

storeVars == <<mutex_, current_, curTag, commits, returnedMax, newSnapshot,
               out_snapshot, error, replaceOk, got, hasEdlResult, myCommit,
               getFloor>>
bcastVars == <<bcMutex, subscribers_, bcPending, bcEvent, bcLog, bcOrder>>
rpcVars   == <<stream, status, response, render, outFile, beats, cancelled>>
cacheVars == <<readerCache_, readerHeap, readerLocal, lookups>>
pureVars  == <<clipTiming, mix, unlinked, legacy>>

----------------------------------------------------------------------------
(* Bounds of the model *)

MaxUpdates == 2
MaxHeartbeats == 1
MaxLookups == 3

(* Threads: gRPC worker threads by the handler they run, and the threads   *)
(* that call the EdlStore methods directly.                                *)
Updaters    == {"u1", "u2"}
Renderers   == {"r1", "r2"}
Subscribers == {"s1", "s2"}
Direct      == {"c0", "c1", "c2"}
Threads     == Updaters \cup Renderers \cup Subscribers \cup Direct
Writers     == Renderers \cup Subscribers
NoThread    == "none"

----------------------------------------------------------------------------
(* Numbers and strings *)

Min(a, b) == IF a < b THEN a ELSE b
Max(a, b) == IF a > b THEN a ELSE b

Digit(d) == CASE d = 0 -> "0" [] d = 1 -> "1" [] d = 2 -> "2" [] d = 3 -> "3"
              [] d = 4 -> "4" [] d = 5 -> "5" [] d = 6 -> "6" [] d = 7 -> "7"
              [] d = 8 -> "8" [] d = 9 -> "9"

RECURSIVE NatDigits(_)
NatDigits(n) == IF n < 10 THEN <<Digit(n)>>
                ELSE NatDigits(n \div 10) \o <<Digit(n % 10)>>

(* std::to_string of an integer, as a sequence of characters *)
to_string(n) == IF n < 0 THEN <<"-">> \o NatDigits(0 - n) ELSE NatDigits(n)

----------------------------------------------------------------------------
(* The media files on disk, as juce::File and AudioFormatReader see them  *)

NoFile == [exists |-> FALSE, readable |-> FALSE, sampleRate |-> 0,
           lengthInSamples |-> 0, channels |-> 0]

FileAt(path) ==
    CASE path = "/m/a48.wav"  -> [exists |-> TRUE, readable |-> TRUE, sampleRate |-> 48000,
                                  lengthInSamples |-> 24000, channels |-> 1]
      [] path = "/m/c48.wav"  -> [exists |-> TRUE, readable |-> TRUE, sampleRate |-> 48000,
                                  lengthInSamples |-> 9000, channels |-> 2]
      [] path = "/m/b44.wav"  -> [exists |-> TRUE, readable |-> TRUE, sampleRate |-> 44100,
                                  lengthInSamples |-> 1000, channels |-> 2]
      [] path = "/m/l48.wav"  -> [exists |-> TRUE, readable |-> TRUE, sampleRate |-> 48000,
                                  lengthInSamples |-> 100000, channels |-> 2]
      [] path = "/m/notes.txt" -> [exists |-> TRUE, readable |-> FALSE, sampleRate |-> 0,
                                  lengthInSamples |-> 0, channels |-> 0]
      [] OTHER -> NoFile

----------------------------------------------------------------------------
(* audio_engine::Edl messages *)

NoFade == [has |-> FALSE, duration_samples |-> 0, shape |-> "LINEAR"]
Fade(d, shape) == [has |-> TRUE, duration_samples |-> d, shape |-> shape]

AudioRef(id, path, sr, ch) ==
    [id |-> id, path |-> path, sample_rate |-> sr, channels |-> ch]

Clip(id, mediaId, startInMedia, startInTimeline, duration) ==
    [id |-> id, media_id |-> mediaId, start_in_media |-> startInMedia,
     start_in_timeline |-> startInTimeline, duration |-> duration,
     gain_db |-> 0, muted |-> FALSE, fade_in |-> NoFade, fade_out |-> NoFade]

Track(id, clips) == [id |-> id, gain_db |-> 0, muted |-> FALSE, clips |-> clips]

EmptyEdl == [id |-> "", sample_rate |-> 0, media |-> <<>>, tracks |-> <<>>,
             revision |-> <<>>]

MediaA == AudioRef("ma", "/m/a48.wav", 48000, 1)
MediaC == AudioRef("mc", "/m/c48.wav", 0, 2)
ClipA1 == Clip("c1", "ma", 0, 0, 24000)

(* one media, one track, one clip of 24000 samples at 48 kHz *)
Edl1 == [id |-> "e1", sample_rate |-> 48000, media |-> <<MediaA>>,
         tracks |-> <<Track("t1", <<ClipA1>>)>>, revision |-> <<>>]

(* two media, two tracks, three clips, faded, with a client revision *)
Edl2 == [id |-> "e2", sample_rate |-> 48000, media |-> <<MediaA, MediaC>>,
         tracks |-> <<Track("t1", <<[Clip("c1", "ma", 100, 4000, 5000)
                                        EXCEPT !.fade_in = Fade(4, "LINEAR")],
                                    Clip("c2", "mc", 0, 0, 9000)>>),
                      [Track("t2", <<[Clip("c3", "mc", 8999, 10, 1)
                                        EXCEPT !.fade_out = Fade(0, "EQUAL_POWER"),
                                               !.gain_db = -6]>>)
                         EXCEPT !.muted = TRUE]>>,
         revision |-> <<"client-rev-7">>]

(* same id as Edl1, other content: a track without clips *)
Edl3 == [Edl1 EXCEPT !.tracks = <<Track("t1", <<ClipA1>>), Track("t2", <<>>)>>]

WithClip(edl, clip) == [edl EXCEPT !.tracks = <<Track("t1", <<clip>>)>>]

ValidEdls == {Edl1, Edl2, Edl3,
              [Edl1 EXCEPT !.revision = <<"r1">>],
              WithClip(Edl1, Clip("c1", "ma", 23999, 0, 1))}

InvalidEdls ==
    { [Edl1 EXCEPT !.id = ""],
      [Edl1 EXCEPT !.sample_rate = 22050],
      [Edl1 EXCEPT !.media = <<>>],
      [Edl1 EXCEPT !.media = <<AudioRef("", "/m/a48.wav", 48000, 1)>>],
      [Edl1 EXCEPT !.media = <<AudioRef("ma", "", 48000, 1)>>],
      [Edl1 EXCEPT !.media = <<AudioRef("ma", "/m/missing.wav", 48000, 1)>>],
      [Edl1 EXCEPT !.media = <<AudioRef("ma", "/m/notes.txt", 48000, 1)>>],
      [Edl1 EXCEPT !.media = <<AudioRef("ma", "/m/a48.wav", 44100, 1)>>],
      [Edl1 EXCEPT !.media = <<MediaA, AudioRef("mb", "/m/b44.wav", 0, 2)>>],
      [Edl2 EXCEPT !.sample_rate = 96000],
      [Edl1 EXCEPT !.tracks = <<>>],
      [Edl1 EXCEPT !.tracks = <<Track("", <<ClipA1>>)>>],
      [Edl2 EXCEPT !.tracks = <<Track("t1", <<ClipA1>>), Track("", <<>>)>>],
      WithClip(Edl1, Clip("", "ma", 0, 0, 10)),
      WithClip(Edl1, Clip("c1", "", 0, 0, 10)),
      WithClip(Edl1, Clip("c1", "mz", 0, 0, 10)),
      WithClip(Edl1, Clip("c1", "ma", -1, 0, 10)),
      WithClip(Edl1, Clip("c1", "ma", 0, 0, 0)),
      WithClip(Edl1, Clip("c1", "ma", 0, -1, 10)),
      WithClip(Edl1, Clip("c1", "ma", 1, 0, 24000)),
      WithClip(Edl1, [ClipA1 EXCEPT !.fade_in = Fade(-1, "LINEAR")]),
      WithClip(Edl1, [ClipA1 EXCEPT !.fade_out = Fade(4, "FADE_SHAPE_7")]) }

(* two media entries with the same id and different files *)
DuplicateMediaEdls ==
    { [Edl1 EXCEPT !.media = <<MediaA, AudioRef("ma", "/m/c48.wav", 48000, 2)>>] }

(* tracks whose clips are out of timeline order and share start positions *)
Edl4 == [id |-> "e1", sample_rate |-> 48000, media |-> <<MediaA, MediaC>>,
         tracks |-> <<Track("t1", <<Clip("c1", "ma", 0, 10, 5),
                                    Clip("c2", "mc", 0, 0, 20),
                                    Clip("c3", "ma", 5, 10, 5),
                                    Clip("c4", "ma", 9, 0, 1)>>),
                      Track("t2", <<>>),
                      [Track("t3", <<Clip("c5", "mc", 7, 3, 2), Clip("c6", "mc", 0, 3, 9)>>)
                         EXCEPT !.gain_db = -3]>>,
         revision |-> <<>>]
Edl5 == [Edl4 EXCEPT !.id = "e2",
                     !.tracks = <<Track("t1", <<Clip("c1", "ma", 0, 30, 1),
                                                Clip("c2", "ma", 0, 20, 1),
                                                Clip("c3", "ma", 0, 10, 1)>>)>>]
CompileEdls == {Edl1, Edl2, Edl4, Edl5}

(* what the direct caller passes to replace, and what UpdateEdl receives *)
StoreEdls == ValidEdls \cup InvalidEdls \cup DuplicateMediaEdls
RpcEdls   == {Edl1, Edl2, WithClip(Edl1, Clip("c1", "ma", 1, 0, 24000))}
FanoutEdls == RpcEdls \ {Edl1}

----------------------------------------------------------------------------
(* EdlStore: validation.  Every validate* returns [ok, error], error being *)
(* the message the C++ leaves in its error out-parameter.                  *)

Ok == [ok |-> TRUE, error |-> <<>>]
Err(msg) == [ok |-> FALSE, error |-> msg]

(* the result of the first failing iteration of a loop that returns false  *)
(* on the first failure                                                    *)
FirstError(results) ==
    IF \E i \in DOMAIN results : ~results[i].ok
    THEN results[CHOOSE i \in DOMAIN results :
                    /\ ~results[i].ok
                    /\ \A j \in DOMAIN results : j < i => results[j].ok]
    ELSE Ok

(* index of the first media entry with this id; 0 stands for nullptr *)
findMediaById(edl, mediaId) ==
    IF \E i \in DOMAIN edl.media : edl.media[i].id = mediaId
    THEN CHOOSE i \in DOMAIN edl.media :
            /\ edl.media[i].id = mediaId
            /\ \A j \in DOMAIN edl.media : j < i => edl.media[j].id # mediaId
    ELSE 0

getMediaLengthInSamples(media) ==
    IF FileAt(media.path).readable THEN FileAt(media.path).lengthInSamples ELSE 0

validateSampleRate(sampleRate) ==
    IF sampleRate # 44100 /\ sampleRate # 48000 /\ sampleRate # 96000
    THEN Err(<<"Sample rate must be 44100, 48000, or 96000 Hz, got ">> \o to_string(sampleRate))
    ELSE Ok

validateOneMedia(media, edl) ==
    LET file == FileAt(media.path) IN
    IF media.id = "" THEN Err(<<"Media ID cannot be empty">>)
    ELSE IF media.path = "" THEN Err(<<"Media path cannot be empty for media ID: ", media.id>>)
    ELSE IF ~file.exists THEN Err(<<"Media file not found: ", media.path>>)
    ELSE IF ~file.readable THEN Err(<<"Unsupported or unreadable audio file: ", media.path>>)
    ELSE IF media.sample_rate # 0 /\ media.sample_rate # file.sampleRate
         THEN Err(<<"Media sample rate mismatch for ", media.id, ": specified ">>
                  \o to_string(media.sample_rate) \o <<" but file is ">>
                  \o to_string(file.sampleRate))
    ELSE IF file.sampleRate # edl.sample_rate
         THEN Err(<<"Media sample rate mismatch for ", media.id, ": file is ">>
                  \o to_string(file.sampleRate) \o <<" but EDL requires ">>
                  \o to_string(edl.sample_rate))
    ELSE Ok

validateMedia(edl) ==
    IF edl.media = <<>> THEN Err(<<"EDL must contain at least one media reference">>)
    ELSE FirstError([i \in DOMAIN edl.media |-> validateOneMedia(edl.media[i], edl)])

(* int64 values that are not negative, as three limbs of 21 bits, lowest    *)
(* first: the 63 value bits of a signed 64-bit integer                     *)
Limb == 2^21

(* the int64 of a number below 2^31 *)
Int64(n) == <<n % Limb, n \div Limb, 0>>

(* INT64_MAX - n, for n < 2^21 *)
Int64MaxMinus(n) == <<Limb - 1 - n, Limb - 1, Limb - 1>>

(* a + b of two int64 that are not negative: the 63 low bits of the sum,   *)
(* and whether the sum passes INT64_MAX (the carry into the sign bit)      *)
AddInt64(a, b) ==
    LET s1 == a[1] + b[1]
        s2 == a[2] + b[2] + (s1 \div Limb)
        s3 == a[3] + b[3] + (s2 \div Limb)
    IN [value |-> <<s1 % Limb, s2 % Limb, s3 % Limb>>, overflow |-> s3 >= Limb]

(* a > b *)
GreaterInt64(a, b) ==
    \/ a[3] > b[3]
    \/ a[3] = b[3] /\ a[2] > b[2]
    \/ a[3] = b[3] /\ a[2] = b[2] /\ a[1] > b[1]

(* line 386: clip.start_in_media() + clip.duration() > mediaLength, in     *)
(* int64.  The addition of two values whose sum passes INT64_MAX is a      *)
(* signed overflow; onOverflow is what the comparison yields then (FALSE   *)
(* where the sum wraps to a negative number)                               *)
ExtendsBeyondMedia(startInMedia, duration, mediaLength, onOverflow) ==
    LET sum == AddInt64(startInMedia, duration)
    IN IF sum.overflow THEN onOverflow ELSE GreaterInt64(sum.value, mediaLength)

validateFade(fade, fadeType) ==
    IF fade.duration_samples < 0 THEN Err(<<fadeType, " duration must be non-negative">>)
    ELSE IF fade.shape # "LINEAR" /\ fade.shape # "EQUAL_POWER"
         THEN Err(<<fadeType, " shape must be LINEAR or EQUAL_POWER">>)
    ELSE Ok

validateClip(clip, edl) ==
    LET m == findMediaById(edl, clip.media_id)
        mediaLength == getMediaLengthInSamples(edl.media[m])
    IN
    IF clip.id = "" THEN Err(<<"Clip ID cannot be empty">>)
    ELSE IF clip.media_id = "" THEN Err(<<"Clip media_id cannot be empty for clip: ", clip.id>>)
    ELSE IF m = 0 THEN Err(<<"Media not found for clip ", clip.id, ": ", clip.media_id>>)
    ELSE IF clip.start_in_media < 0
         THEN Err(<<"Clip start_in_media must be non-negative for clip: ", clip.id>>)
    ELSE IF clip.duration <= 0
         THEN Err(<<"Clip duration must be positive for clip: ", clip.id>>)
    ELSE IF clip.start_in_timeline < 0
         THEN Err(<<"Clip start_in_timeline must be non-negative for clip: ", clip.id>>)
    ELSE IF ExtendsBeyondMedia(Int64(clip.start_in_media), Int64(clip.duration),
                               Int64(mediaLength), FALSE)
         THEN Err(<<"Clip extends beyond media end for clip ", clip.id, ": start=">>
                  \o to_string(clip.start_in_media) \o <<" duration=">>
                  \o to_string(clip.duration) \o <<" but media length=">>
                  \o to_string(mediaLength))
    ELSE IF clip.fade_in.has /\ ~validateFade(clip.fade_in, "fade_in").ok
         THEN Err(<<"Invalid fade_in for clip ", clip.id, ": ">>
                  \o validateFade(clip.fade_in, "fade_in").error)
    ELSE IF clip.fade_out.has /\ ~validateFade(clip.fade_out, "fade_out").ok
         THEN Err(<<"Invalid fade_out for clip ", clip.id, ": ">>
                  \o validateFade(clip.fade_out, "fade_out").error)
    ELSE Ok

validateOneTrack(track, edl) ==
    IF track.id = "" THEN Err(<<"Track ID cannot be empty">>)
    ELSE FirstError([i \in DOMAIN track.clips |-> validateClip(track.clips[i], edl)])

validateTracks(edl) ==
    IF edl.tracks = <<>> THEN Err(<<"EDL must contain at least one track">>)
    ELSE FirstError([i \in DOMAIN edl.tracks |-> validateOneTrack(edl.tracks[i], edl)])

validateEdl(edl) ==
    IF edl.id = "" THEN Err(<<"EDL ID cannot be empty">>)
    ELSE IF ~validateSampleRate(edl.sample_rate).ok THEN validateSampleRate(edl.sample_rate)
    ELSE IF ~validateMedia(edl).ok THEN validateMedia(edl)
    ELSE IF ~validateTracks(edl).ok THEN validateTracks(edl)
    ELSE Ok

----------------------------------------------------------------------------
(* EdlStore: revision and counts *)

RECURSIVE Flatten(_)
Flatten(seqs) == IF seqs = <<>> THEN <<>> ELSE Head(seqs) \o Flatten(Tail(seqs))

JStr(name, s) == IF s = "" THEN <<>> ELSE <<name, s>>
JNum(name, n) == IF n = 0 THEN <<>> ELSE <<name>> \o to_string(n)
JBool(name, b) == IF b THEN <<name, "true">> ELSE <<>>
JList(name, items) == IF items = <<>> THEN <<>> ELSE <<name, "[">> \o Flatten(items) \o <<"]">>

(* the fade message is printed when present, also with all fields default *)
FadeToJson(name, fade) ==
    IF ~fade.has THEN <<>>
    ELSE <<name, "{">> \o JNum("durationSamples", fade.duration_samples)
         \o (IF fade.shape = "LINEAR" THEN <<>> ELSE <<"shape", fade.shape>>) \o <<"}">>

ClipToJson(clip) ==
    <<"{">> \o JStr("id", clip.id) \o JStr("mediaId", clip.media_id)
    \o JNum("startInMedia", clip.start_in_media)
    \o JNum("startInTimeline", clip.start_in_timeline)
    \o JNum("duration", clip.duration) \o JNum("gainDb", clip.gain_db)
    \o JBool("muted", clip.muted) \o FadeToJson("fadeIn", clip.fade_in)
    \o FadeToJson("fadeOut", clip.fade_out) \o <<"}">>

TrackToJson(track) ==
    <<"{">> \o JStr("id", track.id) \o JNum("gainDb", track.gain_db)
    \o JBool("muted", track.muted)
    \o JList("clips", [i \in DOMAIN track.clips |-> ClipToJson(track.clips[i])]) \o <<"}">>

MediaToJson(media) ==
    <<"{">> \o JStr("id", media.id) \o JStr("path", media.path)
    \o JNum("sampleRate", media.sample_rate) \o JNum("channels", media.channels) \o <<"}">>

(* google::protobuf::util::MessageToJsonString with default options: every *)
(* field that is set is printed, default-valued scalars are left out       *)
MessageToJsonString(edl) ==
    <<"{">> \o JStr("id", edl.id) \o JNum("sampleRate", edl.sample_rate)
    \o JList("media", [i \in DOMAIN edl.media |-> MediaToJson(edl.media[i])])
    \o JList("tracks", [i \in DOMAIN edl.tracks |-> TrackToJson(edl.tracks[i])])
    \o (IF edl.revision = <<>> THEN <<>> ELSE <<"revision">> \o edl.revision) \o <<"}">>

(* SHA-256 as a collision-free digest: the hex string names its preimage *)
calculateSHA256(data) == <<"sha256(">> \o data \o <<")">>

(* hash.substr(0, 12) *)
calculateRevision(edl) == <<"first12">> \o calculateSHA256(MessageToJsonString(edl))

RECURSIVE SumClips(_, _)
SumClips(tracks, n) ==
    IF n = 0 THEN 0 ELSE SumClips(tracks, n - 1) + Len(tracks[n].clips)

countTracksAndClips(edl) ==
    [track_count |-> Len(edl.tracks), clip_count |-> SumClips(edl.tracks, Len(edl.tracks))]

NoSnapshot == [has |-> FALSE, edl |-> EmptyEdl, revision |-> <<>>,
               track_count |-> 0, clip_count |-> 0]

(* lines 215-224 of replace: the local newSnapshot *)
BuildSnapshot(edl) ==
    LET revision == calculateRevision(edl)
        counts == countTracksAndClips(edl)
    IN [has |-> TRUE,
        edl |-> IF edl.revision = <<>> \/ edl.revision # revision
                THEN [edl EXCEPT !.revision = revision] ELSE edl,
        revision |-> revision,
        track_count |-> counts.track_count,
        clip_count |-> counts.clip_count]

----------------------------------------------------------------------------
(* EdlStore: replace, get and hasEdl, one step per access to current_.     *)
(* A thread enters a method with pc "replace:lock", "get:lock" or          *)
(* "has:lock" and leaves it with "replace:ret", "get:ret" or "has:ret".    *)

(* initial values of the per-call records *)
NoRequest == [edl |-> EmptyEdl, edl_id |-> "", start_samples |-> 0,
              duration_samples |-> 0]
NoPlan == [ok |-> FALSE, error |-> <<>>, sample_rate |-> 0, tracks |-> <<>>]
NoRender == [samplesRendered |-> 0, totalSamples |-> 0, compiledEdl |-> NoPlan,
             reads |-> {}]
NoResponse == [edl_id |-> "", revision |-> <<>>, track_count |-> 0, clip_count |-> 0]

Goto(t, label) == pc' = [pc EXCEPT ![t] = label]

NoTags == [edl |-> 0, revision |-> 0, track_count |-> 0, clip_count |-> 0]

(* return Status(code, ...): the handler has returned, its result is seen *)
Finish(t, code) ==
    /\ status' = [status EXCEPT ![t] = code]
    /\ Goto(t, "done")

(* std::lock_guard<std::mutex> lock(mutex_): blocks until the mutex is free *)
LockGuard(t) == mutex_ = NoThread /\ mutex_' = t

(* the lock_guard's destructor, at every return of the method *)
Unlock(t) == mutex_' = IF mutex_ = t THEN NoThread ELSE mutex_

replace_Lock(t) ==
    /\ pc[t] = "replace:lock"
    /\ LockGuard(t)
    /\ Goto(t, "replace:validate")
    /\ UNCHANGED <<cacheVars, pureVars, current_, curTag, commits, returnedMax, req, newSnapshot,
                   out_snapshot, error, replaceOk, got, hasEdlResult, myCommit,
                   getFloor, bcastVars, rpcVars, updates>>

(* a variant of the early return that first hands the rejected EDL to the *)
(* caller through out_snapshot                                              *)
replace_Reject_assignsOut(t, reason) ==
    /\ error' = [error EXCEPT ![t] = reason]
    /\ replaceOk' = [replaceOk EXCEPT ![t] = FALSE]
    /\ out_snapshot' = [out_snapshot EXCEPT ![t] = BuildSnapshot(req[t].edl)]
    /\ Unlock(t)
    /\ Goto(t, "replace:ret")
    /\ UNCHANGED <<cacheVars, pureVars, newSnapshot, current_, curTag>>

(* a variant of the early return that resets current_ *)
replace_Reject_resets(t, reason) ==
    /\ error' = [error EXCEPT ![t] = reason]
    /\ replaceOk' = [replaceOk EXCEPT ![t] = FALSE]
    /\ current_' = NoSnapshot
    /\ curTag' = NoTags
    /\ Unlock(t)
    /\ Goto(t, "replace:ret")
    /\ UNCHANGED <<cacheVars, pureVars, newSnapshot, out_snapshot>>

(* if (!validateEdl(edl, error)) return false; *)
replace_Reject(t, reason) ==
    /\ error' = [error EXCEPT ![t] = reason]
    /\ replaceOk' = [replaceOk EXCEPT ![t] = FALSE]
    /\ Unlock(t)
    /\ Goto(t, "replace:ret")
    /\ UNCHANGED <<cacheVars, pureVars, newSnapshot, current_, curTag, out_snapshot>>

(* validateEdl, then either the early return or the new snapshot is built *)
replace_Validate(t) ==
    /\ pc[t] = "replace:validate"
    /\ LET v == validateEdl(req[t].edl) IN
       IF ~v.ok
       THEN replace_Reject(t, v.error)
       ELSE /\ newSnapshot' = [newSnapshot EXCEPT ![t] = BuildSnapshot(req[t].edl)]
            /\ Goto(t, "replace:store_edl")
            /\ UNCHANGED <<error, replaceOk, mutex_, current_, curTag, out_snapshot>>
    /\ UNCHANGED <<cacheVars, pureVars, commits, returnedMax, req, got, hasEdlResult, myCommit, getFloor,
                   bcastVars, rpcVars, updates>>

(* current_ = newSnapshot, member by member: first the edl *)
replace_StoreEdl(t) ==
    /\ pc[t] = "replace:store_edl"
    /\ commits' = commits + 1
    /\ myCommit' = [myCommit EXCEPT ![t] = commits + 1]
    /\ current_' = [current_ EXCEPT !.edl = newSnapshot[t].edl]
    /\ curTag' = [curTag EXCEPT !.edl = commits + 1]
    /\ Goto(t, "replace:store_rest")
    /\ UNCHANGED <<cacheVars, pureVars, mutex_, returnedMax, req, newSnapshot, out_snapshot, error,
                   replaceOk, got, hasEdlResult, getFloor, bcastVars, rpcVars, updates>>

(* revision, the two ints, and the optional becomes engaged *)
replace_StoreRest(t) ==
    /\ pc[t] = "replace:store_rest"
    /\ current_' = [current_ EXCEPT !.revision = newSnapshot[t].revision,
                                    !.track_count = newSnapshot[t].track_count,
                                    !.clip_count = newSnapshot[t].clip_count,
                                    !.has = TRUE]
    /\ curTag' = [curTag EXCEPT !.revision = myCommit[t],
                                !.track_count = myCommit[t],
                                !.clip_count = myCommit[t]]
    /\ Goto(t, "replace:out")
    /\ UNCHANGED <<cacheVars, pureVars, mutex_, commits, returnedMax, req, newSnapshot, out_snapshot, error,
                   replaceOk, got, hasEdlResult, myCommit, getFloor, bcastVars,
                   rpcVars, updates>>

(* a variant of replace that returns with mutex_ still locked *)
replace_Out_keepsLock(t) ==
    /\ pc[t] = "replace:out"
    /\ out_snapshot' = [out_snapshot EXCEPT ![t] = newSnapshot[t]]
    /\ replaceOk' = [replaceOk EXCEPT ![t] = TRUE]
    /\ returnedMax' = Max(returnedMax, myCommit[t])
    /\ Goto(t, "replace:ret")
    /\ UNCHANGED <<cacheVars, pureVars, mutex_, current_, curTag, commits, req, newSnapshot, error, got,
                   hasEdlResult, myCommit, getFloor, bcastVars, rpcVars, updates>>

(* out_snapshot = newSnapshot; return true; *)
replace_Out(t) ==
    /\ pc[t] = "replace:out"
    /\ out_snapshot' = [out_snapshot EXCEPT ![t] = newSnapshot[t]]
    /\ replaceOk' = [replaceOk EXCEPT ![t] = TRUE]
    /\ returnedMax' = Max(returnedMax, myCommit[t])
    /\ Unlock(t)
    /\ Goto(t, "replace:ret")
    /\ UNCHANGED <<cacheVars, pureVars, current_, curTag, commits, req, newSnapshot, error, got,
                   hasEdlResult, myCommit, getFloor, bcastVars, rpcVars, updates>>

(* a variant of get that reads current_ without taking mutex_ *)
get_Lock_unlocked(t) ==
    /\ pc[t] = "get:lock"
    /\ Goto(t, "get:copy")
    /\ UNCHANGED <<cacheVars, pureVars, mutex_, current_, curTag, commits, returnedMax, req, newSnapshot,
                   out_snapshot, error, replaceOk, got, hasEdlResult, myCommit,
                   getFloor, bcastVars, rpcVars, updates>>

get_Lock(t) ==
    /\ pc[t] = "get:lock"
    /\ LockGuard(t)
    /\ Goto(t, "get:copy")
    /\ UNCHANGED <<cacheVars, pureVars, current_, curTag, commits, returnedMax, req, newSnapshot,
                   out_snapshot, error, replaceOk, got, hasEdlResult, myCommit,
                   getFloor, bcastVars, rpcVars, updates>>

(* return current_;  the copy is made before the lock_guard is destroyed *)
get_Copy(t) ==
    /\ pc[t] = "get:copy"
    /\ got' = [got EXCEPT ![t] = [snap |-> IF current_.has THEN current_ ELSE NoSnapshot,
                                  tag |-> IF current_.has THEN curTag ELSE NoTags]]
    /\ Unlock(t)
    /\ Goto(t, "get:ret")
    /\ UNCHANGED <<cacheVars, pureVars, current_, curTag, commits, returnedMax, req, newSnapshot,
                   out_snapshot, error, replaceOk, hasEdlResult, myCommit, getFloor,
                   bcastVars, rpcVars, updates>>

hasEdl_Lock(t) ==
    /\ pc[t] = "has:lock"
    /\ LockGuard(t)
    /\ Goto(t, "has:read")
    /\ UNCHANGED <<cacheVars, pureVars, current_, curTag, commits, returnedMax, req, newSnapshot,
                   out_snapshot, error, replaceOk, got, hasEdlResult, myCommit,
                   getFloor, bcastVars, rpcVars, updates>>

hasEdl_Read(t) ==
    /\ pc[t] = "has:read"
    /\ hasEdlResult' = [hasEdlResult EXCEPT ![t] = current_.has]
    /\ Unlock(t)
    /\ Goto(t, "has:ret")
    /\ UNCHANGED <<cacheVars, pureVars, current_, curTag, commits, returnedMax, req, newSnapshot,
                   out_snapshot, error, replaceOk, got, myCommit, getFloor,
                   bcastVars, rpcVars, updates>>

(* entering the methods: the caller's arguments and fresh out-parameters *)
EnterReplace(t, edl) ==
    /\ req' = [req EXCEPT ![t] = [req[t] EXCEPT !.edl = edl]]
    /\ out_snapshot' = [out_snapshot EXCEPT ![t] = NoSnapshot]
    /\ error' = [error EXCEPT ![t] = <<>>]
    /\ Goto(t, "replace:lock")

EnterGet(t) ==
    /\ getFloor' = [getFloor EXCEPT ![t] = returnedMax]
    /\ Goto(t, "get:lock")

----------------------------------------------------------------------------
(* audio_engine::EngineEvent, one record shape for all six kinds *)

BlankEvent == [type |-> "", edl_id |-> "", text |-> <<>>, track_count |-> 0,
               clip_count |-> 0, num |-> 0, den |-> 1]

EdlErrorEvent(edlId, reason) ==
    [BlankEvent EXCEPT !.type = "EdlError", !.edl_id = edlId, !.text = reason]

EdlAppliedEvent(snapshot) ==
    [BlankEvent EXCEPT !.type = "EdlApplied", !.edl_id = snapshot.edl.id,
                       !.text = snapshot.revision,
                       !.track_count = snapshot.track_count,
                       !.clip_count = snapshot.clip_count]

(* Progress{fraction}: the fraction samplesRendered / totalSamples *)
ProgressEvent(samplesRendered, totalSamples) ==
    [BlankEvent EXCEPT !.type = "Progress", !.num = samplesRendered, !.den = totalSamples]

(* Complete{out_path, duration_sec, sha256}: duration_samples / sample_rate *)
CompleteEvent(sha256, durationSamples, sampleRate) ==
    [BlankEvent EXCEPT !.type = "Complete", !.text = sha256,
                       !.num = durationSamples, !.den = sampleRate]

BackendStatusEvent == [BlankEvent EXCEPT !.type = "BackendStatus", !.text = <<"ready">>]
HeartbeatEvent == [BlankEvent EXCEPT !.type = "Heartbeat"]

(* writer->Write(event) *)
Write(w, event) == stream' = [stream EXCEPT ![w] = Append(@, event)]

----------------------------------------------------------------------------
(* EdlCompiler *)

convertFade(fade) ==
    [length_samples |-> fade.duration_samples,
     shape |-> IF fade.shape = "EQUAL_POWER" THEN "EqualPower" ELSE "Linear"]

EmptyFadeSpec == [length_samples |-> 0, shape |-> "Linear"]

(* a CompiledClip: clip and media are indices into the snapshot's EDL *)
compileClip(edl, trackIdx, clipIdx) ==
    LET clip == edl.tracks[trackIdx].clips[clipIdx] IN
    [clip |-> clipIdx, media |-> findMediaById(edl, clip.media_id),
     t0 |-> clip.start_in_timeline,
     t1 |-> clip.start_in_timeline + clip.duration,
     gain_db |-> clip.gain_db,
     fade_in |-> IF clip.fade_in.has THEN convertFade(clip.fade_in) ELSE EmptyFadeSpec,
     fade_out |-> IF clip.fade_out.has THEN convertFade(clip.fade_out) ELSE EmptyFadeSpec]

(* a variant of the sort that puts a clip before those of equal t0 *)
RECURSIVE InsertByT0_beforeEqual(_, _)
InsertByT0_beforeEqual(sorted, c) ==
    IF sorted = <<>> THEN <<c>>
    ELSE IF c.t0 <= Head(sorted).t0 THEN <<c>> \o sorted
    ELSE <<Head(sorted)>> \o InsertByT0_beforeEqual(Tail(sorted), c)

(* std::stable_sort by t0: insertion behind every element that is not greater *)
RECURSIVE InsertByT0(_, _)
InsertByT0(sorted, c) ==
    IF sorted = <<>> THEN <<c>>
    ELSE IF c.t0 < Head(sorted).t0 THEN <<c>> \o sorted
    ELSE <<Head(sorted)>> \o InsertByT0(Tail(sorted), c)

RECURSIVE sortClipsByTimeline(_)
sortClipsByTimeline(clips) ==
    IF clips = <<>> THEN <<>>
    ELSE InsertByT0(sortClipsByTimeline(SubSeq(clips, 1, Len(clips) - 1)),
                    clips[Len(clips)])

compileTrack(edl, trackIdx) ==
    LET track == edl.tracks[trackIdx]
        clips == [i \in DOMAIN track.clips |-> compileClip(edl, trackIdx, i)]
    IN IF \E i \in DOMAIN clips : clips[i].media = 0
       THEN [ok |-> FALSE,
             error |-> LET i == CHOOSE i \in DOMAIN clips :
                                   /\ clips[i].media = 0
                                   /\ \A j \in DOMAIN clips : j < i => clips[j].media # 0
                       IN <<"Media not found for clip ", track.clips[i].id, ": ",
                            track.clips[i].media_id>>,
             track |-> [gain_db |-> 0, muted |-> FALSE, clips |-> <<>>]]
       ELSE [ok |-> TRUE, error |-> <<>>,
             track |-> [gain_db |-> track.gain_db, muted |-> track.muted,
                        clips |-> sortClipsByTimeline(clips)]]

compile(snapshot) ==
    LET edl == snapshot.edl
        tracks == [i \in DOMAIN edl.tracks |-> compileTrack(edl, i)]
        first == FirstError(tracks)
    IN IF first.ok
       THEN [ok |-> TRUE, error |-> <<>>, sample_rate |-> edl.sample_rate,
             tracks |-> [i \in DOMAIN tracks |-> tracks[i].track]]
       ELSE [ok |-> FALSE, error |-> first.error, sample_rate |-> edl.sample_rate,
             tracks |-> <<>>]

----------------------------------------------------------------------------
(* EdlStore::validateClip on the whole range of its int64 fields           *)

NoClipTiming == [checked |-> FALSE, start_in_media |-> Int64(0), duration |-> Int64(0),
                 mediaLength |-> Int64(0), ok |-> FALSE]

(* timing fields a client can send: small ones, the media lengths and      *)
(* their neighbours, and the top of the int64 range                        *)
StartsInMedia == {Int64(0), Int64(1), Int64(8999), Int64(9000), Int64(23999),
                  Int64(24000), Int64MaxMinus(24000), Int64MaxMinus(1), Int64MaxMinus(0)}
Durations == {Int64(1), Int64(2), Int64(9000), Int64(24000), Int64(24001),
              Int64MaxMinus(23999), Int64MaxMinus(0)}
TimedMedia == {MediaA, MediaC}

(* lines 368-392 for a clip whose start_in_media is not negative and whose *)
(* duration is positive (the two early returns of 369-377 are not taken)   *)
validateClip_Timing(startInMedia, duration, media, onOverflow) ==
    /\ ~clipTiming.checked
    /\ LET mediaLength == Int64(getMediaLengthInSamples(media)) IN
       clipTiming' = [checked |-> TRUE, start_in_media |-> startInMedia,
                      duration |-> duration, mediaLength |-> mediaLength,
                      ok |-> ~ExtendsBeyondMedia(startInMedia, duration, mediaLength,
                                                 onOverflow)]
    /\ UNCHANGED <<cacheVars, mix, unlinked, legacy, storeVars, req, bcastVars, rpcVars, updates, pc>>

(* validateClip has returned *)
validateClip_Return ==
    /\ clipTiming.checked
    /\ clipTiming' = NoClipTiming
    /\ UNCHANGED <<cacheVars, mix, unlinked, legacy, storeVars, req, bcastVars, rpcVars, updates, pc>>

----------------------------------------------------------------------------
(* A client of the EdlStore alone: one thread calling replace, get, hasEdl *)

Direct_Replace(t, edl) ==
    /\ t \in Direct /\ pc[t] = "idle"
    /\ updates < MaxUpdates
    /\ updates' = updates + 1
    /\ EnterReplace(t, edl)
    /\ UNCHANGED <<cacheVars, pureVars, mutex_, current_, curTag, commits, returnedMax, newSnapshot,
                   replaceOk, got, hasEdlResult, myCommit, getFloor, bcastVars, rpcVars>>

(* store.replace(store.get()->edl, ...): the caller hands the EDL of the    *)
(* snapshot its get() returned back to replace                             *)
Direct_ReplaceGot(t) ==
    /\ t \in Direct /\ pc[t] = "get:ret"
    /\ got[t].snap.has
    /\ updates < MaxUpdates
    /\ updates' = updates + 1
    /\ EnterReplace(t, got[t].snap.edl)
    /\ UNCHANGED <<cacheVars, pureVars, mutex_, current_, curTag, commits, returnedMax,
                   newSnapshot, replaceOk, got, hasEdlResult, myCommit, getFloor, bcastVars,
                   rpcVars>>

Direct_Get(t) ==
    /\ t \in Direct /\ pc[t] = "idle"
    /\ EnterGet(t)
    /\ UNCHANGED <<cacheVars, pureVars, mutex_, current_, curTag, commits, returnedMax, req, newSnapshot,
                   out_snapshot, error, replaceOk, got, hasEdlResult, myCommit,
                   bcastVars, rpcVars, updates>>

Direct_HasEdl(t) ==
    /\ t \in Direct /\ pc[t] = "idle"
    /\ getFloor' = [getFloor EXCEPT ![t] = returnedMax]
    /\ Goto(t, "has:lock")
    /\ UNCHANGED <<cacheVars, pureVars, mutex_, current_, curTag, commits, returnedMax, req, newSnapshot,
                   out_snapshot, error, replaceOk, got, hasEdlResult, myCommit,
                   bcastVars, rpcVars, updates>>

(* the call returns; the caller drops its arguments and the snapshots, and *)
(* keeps the outcome of its last replace (the bool and the error string)   *)
Direct_Return(t) ==
    /\ t \in Direct /\ pc[t] \in {"replace:ret", "get:ret", "has:ret"}
    /\ Goto(t, "idle")
    /\ req' = [req EXCEPT ![t] = NoRequest]
    /\ newSnapshot' = [newSnapshot EXCEPT ![t] = NoSnapshot]
    /\ out_snapshot' = [out_snapshot EXCEPT ![t] = NoSnapshot]
    /\ UNCHANGED <<cacheVars, pureVars, error, replaceOk>>
    /\ got' = [got EXCEPT ![t] = [snap |-> NoSnapshot, tag |-> NoTags]]
    /\ hasEdlResult' = [hasEdlResult EXCEPT ![t] = FALSE]
    /\ myCommit' = [myCommit EXCEPT ![t] = 0]
    /\ getFloor' = [getFloor EXCEPT ![t] = 0]
    /\ UNCHANGED <<cacheVars, pureVars, mutex_, current_, curTag, commits, returnedMax, bcastVars,
                   rpcVars, updates>>

----------------------------------------------------------------------------
(* EventBroadcaster *)

(* the iteration order of std::set<Subscriber>: a fixed order of the writers *)
Rank(w) == CASE w = "s1" -> 1 [] w = "s2" -> 2 [] OTHER -> 3

RECURSIVE InOrder(_)
InOrder(ws) ==
    IF ws = {} THEN <<>>
    ELSE LET w == CHOOSE x \in ws : \A y \in ws : Rank(x) <= Rank(y)
         IN <<w>> \o InOrder(ws \ {w})

(* a variant of broadcast that stops after the first subscriber *)
broadcast_Lock_firstOnly(t) ==
    /\ pc[t] = "broadcast:lock"
    /\ bcMutex = NoThread
    /\ bcMutex' = t
    /\ bcPending' = [bcPending EXCEPT ![t] =
                        IF subscribers_ = {} THEN <<>> ELSE <<Head(InOrder(subscribers_))>>]
    /\ bcOrder' = [bcOrder EXCEPT !.serial = @ + 1, !.ticket[t] = bcOrder.serial + 1]
    /\ Goto(t, "broadcast:write")
    /\ UNCHANGED <<cacheVars, pureVars, storeVars, req, subscribers_, bcEvent, bcLog, rpcVars, updates>>

(* a variant of broadcast that iterates without taking the mutex *)
broadcast_Lock_noMutex(t) ==
    /\ pc[t] = "broadcast:lock"
    /\ bcPending' = [bcPending EXCEPT ![t] = InOrder(subscribers_)]
    /\ bcOrder' = [bcOrder EXCEPT !.serial = @ + 1, !.ticket[t] = bcOrder.serial + 1]
    /\ Goto(t, "broadcast:write")
    /\ UNCHANGED <<cacheVars, pureVars, storeVars, req, bcMutex, subscribers_, bcEvent, bcLog, rpcVars,
                   updates>>

(* a variant of broadcast that copies subscribers_ under the mutex and     *)
(* writes to the copy after the lock_guard is gone                         *)
broadcast_Lock_copiesAndReleases(t) ==
    /\ pc[t] = "broadcast:lock"
    /\ bcMutex = NoThread
    /\ bcPending' = [bcPending EXCEPT ![t] = InOrder(subscribers_)]
    /\ bcOrder' = [bcOrder EXCEPT !.serial = @ + 1, !.ticket[t] = bcOrder.serial + 1]
    /\ Goto(t, "broadcast:write")
    /\ UNCHANGED <<cacheVars, pureVars, storeVars, req, bcMutex, subscribers_, bcEvent, bcLog, rpcVars,
                   updates>>

(* broadcast: lock_guard, then the range-for over subscribers_ begins *)
broadcast_Lock(t) ==
    /\ pc[t] = "broadcast:lock"
    /\ bcMutex = NoThread
    /\ bcMutex' = t
    /\ bcPending' = [bcPending EXCEPT ![t] = InOrder(subscribers_)]
    /\ bcOrder' = [bcOrder EXCEPT !.serial = @ + 1, !.ticket[t] = bcOrder.serial + 1]
    /\ Goto(t, "broadcast:write")
    /\ UNCHANGED <<cacheVars, pureVars, storeVars, req, subscribers_, bcEvent, bcLog, rpcVars, updates>>

(* one iteration: if (writer) writer->Write(event) *)
broadcast_Write(t) ==
    /\ pc[t] = "broadcast:write"
    /\ bcPending[t] # <<>>
    /\ Write(Head(bcPending[t]), bcEvent[t])
    /\ bcLog' = [bcLog EXCEPT ![t] = Append(@, [to |-> Head(bcPending[t]),
                                                  event |-> bcEvent[t]])]
    /\ bcOrder' = [bcOrder EXCEPT !.delivered[Head(bcPending[t])] =
                                      Append(@, bcOrder.ticket[t])]
    /\ bcPending' = [bcPending EXCEPT ![t] = Tail(@)]
    /\ UNCHANGED <<cacheVars, pureVars, pc, storeVars, req, bcMutex, subscribers_, bcEvent, status,
                   response, render, outFile, beats, cancelled,
                   updates>>

(* the loop ends and the lock_guard is destroyed *)
broadcast_Unlock(t) ==
    /\ pc[t] = "broadcast:write"
    /\ bcPending[t] = <<>>
    /\ bcMutex' = NoThread
    /\ bcOrder' = [bcOrder EXCEPT !.ticket[t] = 0]
    /\ Goto(t, "broadcast:ret")
    /\ UNCHANGED <<cacheVars, pureVars, storeVars, req, subscribers_, bcPending, bcEvent, bcLog,
                   rpcVars, updates>>

----------------------------------------------------------------------------
(* AudioEngineServiceImpl::UpdateEdl *)

UpdateEdl_Call(t, edl) ==
    /\ t \in Updaters /\ pc[t] = "idle"
    /\ updates < MaxUpdates
    /\ updates' = updates + 1
    /\ EnterReplace(t, edl)
    /\ status' = [status EXCEPT ![t] = "running"]
    /\ response' = [response EXCEPT ![t] = NoResponse]
    /\ bcLog' = [bcLog EXCEPT ![t] = <<>>]
    /\ UNCHANGED <<cacheVars, pureVars, mutex_, current_, curTag, commits, returnedMax, newSnapshot,
                   replaceOk, got, hasEdlResult, myCommit, getFloor, bcMutex,
                   subscribers_, bcPending, bcEvent, bcOrder, stream, render, outFile, beats,
                   cancelled>>

(* a variant of UpdateEdl that fills the response and the event from the  *)
(* store's current snapshot instead of the snapshot replace handed back    *)
UpdateEdl_AfterReplace_rereads(t) ==
    /\ t \in Updaters /\ pc[t] = "replace:ret"
    /\ IF ~replaceOk[t]
       THEN /\ bcEvent' = [bcEvent EXCEPT ![t] = EdlErrorEvent(req[t].edl.id, error[t])]
            /\ UNCHANGED response
       ELSE /\ response' = [response EXCEPT ![t] =
                              [edl_id |-> current_.edl.id,
                               revision |-> current_.revision,
                               track_count |-> current_.track_count,
                               clip_count |-> current_.clip_count]]
            /\ bcEvent' = [bcEvent EXCEPT ![t] = EdlAppliedEvent(current_)]
    /\ Goto(t, "broadcast:lock")
    /\ UNCHANGED <<cacheVars, pureVars, storeVars, req, bcMutex, subscribers_, bcPending, bcLog, bcOrder, stream,
                   status, render, outFile, beats, cancelled,
                   updates>>

(* lines 431-462: build the EdlError or the response and the EdlApplied *)
UpdateEdl_AfterReplace(t) ==
    /\ t \in Updaters /\ pc[t] = "replace:ret"
    /\ IF ~replaceOk[t]
       THEN /\ bcEvent' = [bcEvent EXCEPT ![t] = EdlErrorEvent(req[t].edl.id, error[t])]
            /\ UNCHANGED response
       ELSE /\ response' = [response EXCEPT ![t] =
                              [edl_id |-> out_snapshot[t].edl.id,
                               revision |-> out_snapshot[t].revision,
                               track_count |-> out_snapshot[t].track_count,
                               clip_count |-> out_snapshot[t].clip_count]]
            /\ bcEvent' = [bcEvent EXCEPT ![t] = EdlAppliedEvent(out_snapshot[t])]
    /\ Goto(t, "broadcast:lock")
    /\ UNCHANGED <<cacheVars, pureVars, storeVars, req, bcMutex, subscribers_, bcPending, bcLog, bcOrder, stream,
                   status, render, outFile, beats, cancelled,
                   updates>>

UpdateEdl_Return(t) ==
    /\ t \in Updaters /\ pc[t] = "broadcast:ret"
    /\ Finish(t, IF replaceOk[t] THEN "OK" ELSE "INVALID_ARGUMENT")
    /\ UNCHANGED <<cacheVars, pureVars, storeVars, req, bcastVars, stream, response, render, outFile,
                   beats, cancelled,
                   updates>>

----------------------------------------------------------------------------
(* AudioEngineServiceImpl::RenderEdlWindow and EdlRenderer::renderToWav *)

blockSize_ == 4096

StartSamples    == {0, 48000}
DurationSamples == {-1, 0, 1, 4096, 4097}
EdlIds          == {"e1", "e2"}

AbsentFile == [state |-> "absent", frames |-> 0]

(* a variant in which get() hands out a reference to the store's current_ *)
edlSnapshotOf_aliasesStore(t) == IF current_.has THEN current_ ELSE NoSnapshot

(* the handler's local edlSnapshot: the std::optional<Snapshot> that get()  *)
(* returned by value                                                        *)
edlSnapshotOf(t) == got[t].snap

(* *clip.clip and *clip.media: a compiled clip points into the EDL it was   *)
(* compiled from; a pointer that no longer leads to an element reads some   *)
(* other memory                                                             *)
DerefClip(edl, trackIdx, clipIdx) ==
    IF trackIdx \in DOMAIN edl.tracks /\ clipIdx \in DOMAIN edl.tracks[trackIdx].clips
    THEN edl.tracks[trackIdx].clips[clipIdx]
    ELSE Clip("", "", -1, 0, 0)

DerefMedia(edl, mediaIdx) ==
    IF mediaIdx \in DOMAIN edl.media THEN edl.media[mediaIdx] ELSE AudioRef("", "", 0, 0)

getClipsInRange(track, rangeStart, rangeEnd) ==
    SelectSeq(track.clips, LAMBDA clip : clip.t1 > rangeStart /\ clip.t0 < rangeEnd)

(* renderClip: the samples read from the clip's media file for this block *)
renderClip(edl, trackIdx, clip, rangeStart, rangeEnd) ==
    LET clipStart == Max(clip.t0, rangeStart)
        clipEnd == Min(clip.t1, rangeEnd)
        path == DerefMedia(edl, clip.media).path
        reader == FileAt(path)
        sourceStart == DerefClip(edl, trackIdx, clip.clip).start_in_media
                         + (clipStart - clip.t0)
        sourceSamples == clipEnd - clipStart
    IN IF clipStart >= clipEnd THEN {}
       ELSE IF ~reader.readable THEN {}
       ELSE IF sourceStart >= 0 /\ sourceStart < reader.lengthInSamples /\ sourceSamples > 0
       THEN {[path |-> path, sourceStart |-> sourceStart, readSamples |-> sourceSamples,
              at |-> clipStart]}
       ELSE {}

renderTrack(edl, compiledEdl, trackIdx, rangeStart, rangeEnd) ==
    LET clipsInRange == getClipsInRange(compiledEdl.tracks[trackIdx], rangeStart, rangeEnd)
    IN UNION {renderClip(edl, trackIdx, clipsInRange[i], rangeStart, rangeEnd) :
                 i \in DOMAIN clipsInRange}

(* the body of the block loop: every track that is not muted *)
renderBlock(edl, compiledEdl, blockStart, blockEnd) ==
    UNION {renderTrack(edl, compiledEdl, i, blockStart, blockEnd) :
              i \in {j \in DOMAIN compiledEdl.tracks : ~compiledEdl.tracks[j].muted}}

----------------------------------------------------------------------------
(* EdlRenderer: the samples.  A buffer is a function from the frame index  *)
(* 0..n-1 to a sample.  A sample is the sum it was built as: the sequence  *)
(* of its terms in the order they were added, each term a frame of a media *)
(* file with the factors it was multiplied by, in order; <<>> is silence.  *)

Silence == <<>>

(* what reader->read puts at one frame: the file's frame, zero past its end *)
MediaFrame(path, pos) ==
    IF pos >= 0 /\ pos < FileAt(path).lengthInSamples
    THEN <<[path |-> path, pos |-> pos, gains |-> <<>>]>>
    ELSE Silence

(* the factors whose value is 0.0f and 1.0f *)
IsZeroGain(factor) ==
    /\ factor.kind # "dB"
    /\ \/ factor.dir = "in" /\ factor.num = 0
       \/ factor.dir = "out" /\ factor.num = factor.den
IsUnityGain(factor) ==
    \/ factor.kind = "dB" /\ factor.num = 0
    \/ factor.kind # "dB" /\ factor.dir = "in" /\ factor.num = factor.den
    \/ factor.kind # "dB" /\ factor.dir = "out" /\ factor.num = 0

(* sample * factor; a factor is a gain in dB or a fade gain *)
Scale(sample, factor) ==
    IF sample = Silence \/ IsZeroGain(factor) THEN Silence
    ELSE IF IsUnityGain(factor) THEN sample
    ELSE [k \in DOMAIN sample |-> [sample[k] EXCEPT !.gains = Append(@, factor)]]

(* dbToLinear(db) = pow(10, db / 20) *)
dbToLinear(db) == [kind |-> "dB", dir |-> "", num |-> db, den |-> 20]

(* buffer.clear() after ensureBufferSize(buffer, channels, numSamples) *)
ClearBuffer(numSamples) == [j \in 0 .. numSamples - 1 |-> Silence]

getNumSamples(buffer) == Cardinality(DOMAIN buffer)

(* calculateFadeGain(shape, fadePos): fadePos is num / den for a fade-in   *)
(* and 1 - num / den for a fade-out, clamped to [0, 1]; Linear returns     *)
(* the position, EqualPower its square root                                *)
calculateFadeGain(shape, isFadeIn, num, den) ==
    [kind |-> shape, dir |-> IF isFadeIn THEN "in" ELSE "out",
     num |-> Max(0, Min(den, num)), den |-> den]

(* The operations on a buffer are written for one frame of it: each gives  *)
(* the sample at index i after the operation, from the sample(s) at index  *)
(* i before it.                                                            *)

(* applyFade: samples[k] *= gain for k in 0 .. numSamples - 1, samples     *)
(* being buffer.getWritePointer(ch, bufferStart)                           *)
applyFade(sample, i, fade, clipStart, clipEnd, renderStart, renderEnd, isFadeIn) ==
    LET fadeStart == IF isFadeIn THEN clipStart ELSE clipEnd - fade.length_samples
        fadeEnd == IF isFadeIn THEN clipStart + fade.length_samples ELSE clipEnd
        effectiveStart == Max(fadeStart, renderStart)
        effectiveEnd == Min(fadeEnd, renderEnd)
        bufferStart == effectiveStart - renderStart
        numSamples == effectiveEnd - effectiveStart
        samplePos == effectiveStart + (i - bufferStart)
    IN IF effectiveStart >= effectiveEnd THEN sample
       ELSE IF i >= bufferStart /\ i < bufferStart + numSamples
       THEN Scale(sample, calculateFadeGain(fade.shape, isFadeIn, samplePos - fadeStart,
                                            fade.length_samples))
       ELSE sample

(* getReader (752-767) in a renderer whose readerCache_ is empty:          *)
(* createReaderFor(file) on the file as it is now; no reader for a file    *)
(* that has been deleted                                                   *)
getReader(filePath) == IF filePath \in unlinked THEN NoFile ELSE FileAt(filePath)

(* a variant that always reads from the clip's first source frame *)
SourceStart_ofClip(startInMedia, clipStart, t0) == startInMedia

(* line 644: clip.clip->start_in_media() + (clipStart - clip.t0) *)
SourceStart(startInMedia, clipStart, t0) == startInMedia + (clipStart - t0)

(* renderClip (623-680) on the cleared clipBuffer of numSamples frames;    *)
(* the reader is the one getReader returns for the media's path            *)
renderClipBuffer(edl, trackIdx, clip, rangeStart, rangeEnd, numSamples, bufferOffset, i) ==
    LET clipStart == Max(clip.t0, rangeStart)
        clipEnd == Min(clip.t1, rangeEnd)
        path == DerefMedia(edl, clip.media).path
        reader == getReader(path)
        sourceStart == SourceStart(DerefClip(edl, trackIdx, clip.clip).start_in_media,
                                   clipStart, clip.t0)
        sourceSamples == clipEnd - clipStart
        bufferStart == clipStart - rangeStart + bufferOffset
        readSamples == Min(sourceSamples, numSamples - bufferStart)
        inRead == i >= bufferStart /\ i < bufferStart + readSamples
        read == IF inRead THEN MediaFrame(path, sourceStart + (i - bufferStart)) ELSE Silence
        gained == IF clip.gain_db # 0 /\ inRead THEN Scale(read, dbToLinear(clip.gain_db))
                  ELSE read
        fadedIn == IF clip.fade_in.length_samples = 0 THEN gained
                   ELSE applyFade(gained, i, clip.fade_in, clip.t0, clip.t1,
                                  clipStart, clipEnd, TRUE)
        fadedOut == IF clip.fade_out.length_samples = 0 THEN fadedIn
                    ELSE applyFade(fadedIn, i, clip.fade_out, clip.t0, clip.t1,
                                   clipStart, clipEnd, FALSE)
    IN IF clipStart >= clipEnd THEN Silence
       ELSE IF ~reader.readable THEN Silence
       ELSE IF sourceStart >= 0 /\ sourceStart < reader.lengthInSamples
               /\ sourceSamples > 0 /\ bufferStart >= 0 /\ readSamples > 0
       THEN fadedOut
       ELSE Silence

(* applyGain: every sample of the buffer *)
applyGain(sample, gainDb) == Scale(sample, dbToLinear(gainDb))

(* a variant in which a clip's samples take the place of the mix *)
addToMixBuffer_overwrites(mixSample, clipSample) ==
    IF clipSample # Silence THEN clipSample ELSE mixSample

(* addToMixBuffer: mix[i] += clip[i]; both buffers have the block's size *)
addToMixBuffer(mixSample, clipSample) == mixSample \o clipSample

(* the for loop of renderTrack over clipsInRange, from its k-th clip on *)
RECURSIVE MixClips(_, _, _, _, _, _, _, _)
MixClips(edl, trackIdx, gainDb, clipsInRange, k, range, i, mixSample) ==
    IF k > Len(clipsInRange) THEN mixSample
    ELSE LET rendered == renderClipBuffer(edl, trackIdx, clipsInRange[k], range[1], range[2],
                                          range[2] - range[1], 0, i)
             clipSample == IF gainDb # 0 THEN applyGain(rendered, gainDb) ELSE rendered
         IN MixClips(edl, trackIdx, gainDb, clipsInRange, k + 1, range, i,
                     addToMixBuffer(mixSample, clipSample))

(* renderTrack (593-621) *)
renderTrackMix(edl, compiledEdl, trackIdx, rangeStart, rangeEnd, i, mixSample) ==
    LET track == compiledEdl.tracks[trackIdx]
    IN MixClips(edl, trackIdx, track.gain_db, getClipsInRange(track, rangeStart, rangeEnd),
                1, <<rangeStart, rangeEnd>>, i, mixSample)

(* lines 565-570: the for loop over compiledEdl.tracks, from track t on *)
RECURSIVE MixTracks(_, _, _, _, _, _)
MixTracks(edl, compiledEdl, t, range, i, mixSample) ==
    IF t > Len(compiledEdl.tracks) THEN mixSample
    ELSE MixTracks(edl, compiledEdl, t + 1, range, i,
                   IF compiledEdl.tracks[t].muted THEN mixSample
                   ELSE renderTrackMix(edl, compiledEdl, t, range[1], range[2], i, mixSample))

(* lines 537-545: int maxChannels = 2, raised by the media of every clip *)
(* of every compiled track                                                *)
maxChannels(edl, compiledEdl) ==
    LET channels == {2} \cup
            UNION {{DerefMedia(edl, compiledEdl.tracks[i].clips[k].media).channels :
                       k \in DOMAIN compiledEdl.tracks[i].clips} :
                   i \in DOMAIN compiledEdl.tracks}
    IN CHOOSE c \in channels : \A d \in channels : d <= c

NoRendered == [ok |-> FALSE, error |-> <<>>, channels |-> 0, frames |-> <<>>]

(* lines 556-587 with blockSize_ as a parameter: frame j of outputBuffer   *)
(* is copied from the mix of the block that starts at samplesRendered, the *)
(* largest multiple of the block size that is not above j                  *)
outputFrame(edl, compiledEdl, rangeStart, totalSamples, blockSize, j) ==
    LET samplesRendered == (j \div blockSize) * blockSize
        blockStart == rangeStart + samplesRendered
        blockSamples == Min(blockSize, totalSamples - samplesRendered)
        blockEnd == blockStart + blockSamples
    IN MixTracks(edl, compiledEdl, 1, <<blockStart, blockEnd>>, j - samplesRendered, Silence)

renderTimeRange(edl, compiledEdl, rangeStart, totalSamples, blockSize) ==
    IF totalSamples <= 0
    THEN [NoRendered EXCEPT
            !.error = <<"Invalid render range: duration must be positive">>]
    ELSE [ok |-> TRUE, error |-> <<>>,
          channels |-> maxChannels(edl, compiledEdl),
          frames |-> [j \in 0 .. totalSamples - 1 |->
                        outputFrame(edl, compiledEdl, rangeStart, totalSamples, blockSize, j)]]

(* the EDLs, windows and block sizes the renderer is called with *)
MediaW == AudioRef("mw", "/m/c48.wav", 48000, 6)
MixClip == Clip("c1", "ma", 100, 2, 6)
MixEdl(media, tracks) ==
    [id |-> "e1", sample_rate |-> 48000, media |-> media, tracks |-> tracks,
     revision |-> <<>>]

MixEdls ==
    LET faded == [MixClip EXCEPT !.fade_in = Fade(4, "LINEAR"),
                                 !.fade_out = Fade(2, "EQUAL_POWER")]
        both == <<MediaA, MediaC>>
    IN { MixEdl(both, <<Track("t1", <<MixClip>>)>>),
         MixEdl(both, <<Track("t1", <<[MixClip EXCEPT !.muted = TRUE]>>)>>),
         MixEdl(both, <<Track("t1", <<faded>>)>>),
         MixEdl(both, <<Track("t1", <<[faded EXCEPT !.start_in_timeline = 0]>>)>>),
         MixEdl(both, <<[Track("t1", <<MixClip>>) EXCEPT !.gain_db = -6]>>),
         MixEdl(both, <<Track("t1", <<[MixClip EXCEPT !.gain_db = -3]>>)>>),
         MixEdl(both, <<Track("t1", <<MixClip, Clip("c2", "mc", 0, 5, 6)>>),
                        [Track("t2", <<[Clip("c3", "ma", 0, 4, 3) EXCEPT !.gain_db = 3]>>)
                           EXCEPT !.gain_db = -6],
                        [Track("t3", <<Clip("c4", "mc", 50, 0, 10)>>)
                           EXCEPT !.muted = TRUE, !.gain_db = 6]>>),
         MixEdl(<<MediaA, MediaC, MediaW>>, <<Track("t1", <<MixClip>>)>>),
         MixEdl(<<MediaA, MediaC, MediaW>>,
                <<Track("t1", <<MixClip>>),
                  [Track("t2", <<Clip("c2", "mw", 0, 0, 4)>>) EXCEPT !.muted = TRUE]>>),
         MixEdl(both, <<Track("t1", <<Clip("c1", "mc", 7, 1020, 10)>>)>>),
         MixEdl(both, <<Track("t1", <<[Clip("c1", "ma", 0, 1024, 6)
                                         EXCEPT !.fade_in = Fade(4, "LINEAR")]>>)>>) }

MixStarts == {0, 2, 1000}
MixDurations == {-1, 0, 4, 12, 1030}
BlockSizes == {1024, blockSize_, 16384}

NoMix == [called |-> FALSE, edl |-> EmptyEdl, start |-> 0, duration |-> 0,
          blockSize |-> 0, rendered |-> NoRendered]

(* renderToBuffer (510-520) on the compiled form of a validated EDL, in a  *)
(* build whose blockSize_ is blockSize                                     *)
renderToBuffer_Call(edl, start, duration, blockSize) ==
    /\ ~mix.called
    /\ validateEdl(edl).ok
    /\ LET compiledEdl == compile([edl |-> edl]) IN
       /\ compiledEdl.ok
       /\ mix' = [called |-> TRUE, edl |-> edl, start |-> start, duration |-> duration,
                  blockSize |-> blockSize,
                  rendered |-> renderTimeRange(edl, compiledEdl, start, duration, blockSize)]
    /\ UNCHANGED <<cacheVars, clipTiming, unlinked, legacy, storeVars, req, bcastVars, rpcVars, updates, pc>>

(* a media file is deleted while no render is running *)
File_Remove(path) ==
    /\ ~mix.called
    /\ path \notin unlinked
    /\ unlinked' = unlinked \cup {path}
    /\ UNCHANGED <<cacheVars, clipTiming, mix, legacy, storeVars, req, bcastVars, rpcVars, updates, pc>>

(* the caller has taken the buffer *)
renderToBuffer_Return ==
    /\ mix.called
    /\ mix' = NoMix
    /\ UNCHANGED <<cacheVars, clipTiming, unlinked, legacy, storeVars, req, bcastVars, rpcVars, updates, pc>>

RenderEdlWindow_Call(t, edlId, start, duration) ==
    /\ t \in Renderers /\ pc[t] = "idle"
    /\ req' = [req EXCEPT ![t] = [NoRequest EXCEPT !.edl_id = edlId,
                                                   !.start_samples = start,
                                                   !.duration_samples = duration]]
    /\ stream' = [stream EXCEPT ![t] = <<>>]
    /\ status' = [status EXCEPT ![t] = "running"]
    /\ render' = [render EXCEPT ![t] = NoRender]
    /\ EnterGet(t)
    /\ UNCHANGED <<cacheVars, pureVars, mutex_, current_, curTag, commits, returnedMax, newSnapshot,
                   out_snapshot, error, replaceOk, got, hasEdlResult, myCommit,
                   bcastVars, response, outFile, beats, cancelled,
                   updates>>


(* lines 475-509: what RenderEdlWindow does with the snapshot before it    *)
(* renders: [go] whether it goes on, [events] what it writes, [code] the   *)
(* status it returns when it does not go on                                 *)
Refuse(code, event, reason) ==
    [go |-> FALSE, code |-> code, events |-> <<event>>, error |-> reason]
Proceed == [go |-> TRUE, code |-> "running", events |-> <<>>, error |-> <<>>]

(* a variant without the comparison of the ids *)
RenderPreflight_anyId(edlSnapshot, request) ==
    LET compiledEdl == compile(edlSnapshot) IN
    IF ~edlSnapshot.has
    THEN Refuse("NOT_FOUND",
                EdlErrorEvent(request.edl_id, <<"No EDL currently loaded">>), <<>>)
    ELSE IF ~compiledEdl.ok
    THEN Refuse("INTERNAL",
                EdlErrorEvent(request.edl_id, <<"Compilation failed: ">> \o compiledEdl.error),
                compiledEdl.error)
    ELSE Proceed

(* a variant that writes the EdlError for a mismatch and goes on *)
RenderPreflight_noReturn(edlSnapshot, request) ==
    LET compiledEdl == compile(edlSnapshot) IN
    IF ~edlSnapshot.has
    THEN Refuse("NOT_FOUND",
                EdlErrorEvent(request.edl_id, <<"No EDL currently loaded">>), <<>>)
    ELSE IF edlSnapshot.edl.id # request.edl_id
    THEN [Proceed EXCEPT !.events = <<EdlErrorEvent(request.edl_id, <<"EDL ID mismatch">>)>>]
    ELSE IF ~compiledEdl.ok
    THEN Refuse("INTERNAL",
                EdlErrorEvent(request.edl_id, <<"Compilation failed: ">> \o compiledEdl.error),
                compiledEdl.error)
    ELSE Proceed

RenderPreflight(edlSnapshot, request) ==
    LET compiledEdl == compile(edlSnapshot) IN
    IF ~edlSnapshot.has
    THEN Refuse("NOT_FOUND",
                EdlErrorEvent(request.edl_id, <<"No EDL currently loaded">>), <<>>)
    ELSE IF edlSnapshot.edl.id # request.edl_id
    THEN Refuse("NOT_FOUND",
                EdlErrorEvent(request.edl_id,
                              <<"EDL ID mismatch: requested '", request.edl_id,
                                "' but current is '", edlSnapshot.edl.id, "'">>), <<>>)
    ELSE IF ~compiledEdl.ok
    THEN Refuse("INTERNAL",
                EdlErrorEvent(request.edl_id, <<"Compilation failed: ">> \o compiledEdl.error),
                compiledEdl.error)
    ELSE Proceed

(* lines 475-555 up to the first block: the checks on the snapshot, then   *)
(* renderToWav -> renderToBuffer -> renderTimeRange and its range check,   *)
(* whose failure RenderEdlWindow turns into INTERNAL (lines 552-555)       *)
RenderEdlWindow_AfterGet(t) ==
    /\ t \in Renderers /\ pc[t] = "get:ret"
    /\ LET pre == RenderPreflight(edlSnapshotOf(t), req[t])
           totalSamples == req[t].duration_samples
       IN
       /\ stream' = [stream EXCEPT ![t] = @ \o pre.events]
       /\ IF ~pre.go
          THEN /\ error' = [error EXCEPT ![t] = pre.error]
               /\ Finish(t, pre.code)
               /\ UNCHANGED render
          ELSE IF totalSamples <= 0
          THEN /\ error' = [error EXCEPT ![t] =
                              <<"Invalid render range: duration must be positive">>]
               /\ Finish(t, "INTERNAL")
               /\ UNCHANGED render
          ELSE /\ render' = [render EXCEPT ![t] = [samplesRendered |-> 0,
                                                   totalSamples |-> totalSamples,
                                                   compiledEdl |-> compile(edlSnapshotOf(t)),
                                                   reads |-> {}]]
               /\ error' = [error EXCEPT ![t] = <<>>]
               /\ Goto(t, "render:block")
               /\ UNCHANGED status
    /\ UNCHANGED <<cacheVars, pureVars, mutex_, current_, curTag, commits, returnedMax, req, newSnapshot,
                   out_snapshot, replaceOk, got, hasEdlResult, myCommit, getFloor,
                   bcastVars, response, outFile, beats, cancelled,
                   updates>>

(* a variant whose callback is only invoked for full blocks *)
renderTimeRange_Block_fullOnly(t) ==
    /\ t \in Renderers /\ pc[t] = "render:block"
    /\ LET r == render[t]
           blockSamples == Min(blockSize_, r.totalSamples - r.samplesRendered)
           samplesRendered == r.samplesRendered + blockSamples
           blockStart == req[t].start_samples + r.samplesRendered
       IN /\ render' = [render EXCEPT
                          ![t].samplesRendered = samplesRendered,
                          ![t].reads = @ \cup renderBlock(edlSnapshotOf(t).edl, r.compiledEdl,
                                                         blockStart, blockStart + blockSamples)]
          /\ IF blockSamples = blockSize_
             THEN Write(t, ProgressEvent(samplesRendered, r.totalSamples))
             ELSE UNCHANGED stream
          /\ Goto(t, IF samplesRendered < r.totalSamples THEN "render:block"
                     ELSE "render:wav")
    /\ UNCHANGED <<cacheVars, pureVars, storeVars, req, bcastVars, status, response, outFile, beats, cancelled,
                   updates>>

(* a variant that reports the fraction before samplesRendered is advanced *)
renderTimeRange_Block_reportsBefore(t) ==
    /\ t \in Renderers /\ pc[t] = "render:block"
    /\ LET r == render[t]
           blockSamples == Min(blockSize_, r.totalSamples - r.samplesRendered)
           samplesRendered == r.samplesRendered + blockSamples
           blockStart == req[t].start_samples + r.samplesRendered
       IN /\ render' = [render EXCEPT
                          ![t].samplesRendered = samplesRendered,
                          ![t].reads = @ \cup renderBlock(edlSnapshotOf(t).edl, r.compiledEdl,
                                                         blockStart, blockStart + blockSamples)]
          /\ Write(t, ProgressEvent(r.samplesRendered, r.totalSamples))
          /\ Goto(t, IF samplesRendered < r.totalSamples THEN "render:block"
                     ELSE "render:wav")
    /\ UNCHANGED <<cacheVars, pureVars, storeVars, req, bcastVars, status, response, outFile, beats, cancelled,
                   updates>>

(* one iteration of the while loop of renderTimeRange, with its callback *)
renderTimeRange_Block(t) ==
    /\ t \in Renderers /\ pc[t] = "render:block"
    /\ LET r == render[t]
           blockSamples == Min(blockSize_, r.totalSamples - r.samplesRendered)
           samplesRendered == r.samplesRendered + blockSamples
           blockStart == req[t].start_samples + r.samplesRendered
       IN /\ render' = [render EXCEPT
                          ![t].samplesRendered = samplesRendered,
                          ![t].reads = @ \cup renderBlock(edlSnapshotOf(t).edl, r.compiledEdl,
                                                         blockStart, blockStart + blockSamples)]
          /\ Write(t, ProgressEvent(samplesRendered, r.totalSamples))
          /\ Goto(t, IF samplesRendered < r.totalSamples THEN "render:block"
                     ELSE "render:wav")
    /\ UNCHANGED <<cacheVars, pureVars, storeVars, req, bcastVars, status, response, outFile, beats, cancelled,
                   updates>>

(* what the file system lets writeWavFile do *)
WavOutcomes == {"ok", "no_stream", "no_writer", "write_failed"}

(* writeWavFile: the old file is deleted, then stream, writer, samples *)
writeWavFile(t, outcome) ==
    /\ t \in Renderers /\ pc[t] = "render:wav"
    /\ outFile' = [state |-> CASE outcome = "ok" -> "complete"
                               [] outcome = "no_stream" -> "absent"
                               [] outcome = "no_writer" -> "empty"
                               [] outcome = "write_failed" -> "partial",
                   frames |-> IF outcome = "ok" THEN render[t].totalSamples ELSE 0]
    /\ IF outcome = "ok"
       THEN /\ Goto(t, "render:complete")
            /\ UNCHANGED <<status, error>>
       ELSE /\ error' = [error EXCEPT ![t] =
                  CASE outcome = "no_stream" -> <<"Cannot create output file: ", "out_path">>
                    [] outcome = "no_writer" -> <<"Cannot create WAV writer for: ", "out_path">>
                    [] OTHER -> <<"Failed to write audio data to: ", "out_path">>]
            /\ Finish(t, "INTERNAL")
    /\ UNCHANGED <<cacheVars, pureVars, mutex_, current_, curTag, commits, returnedMax, req, newSnapshot,
                   out_snapshot, replaceOk, got, hasEdlResult, myCommit, getFloor,
                   bcastVars, stream, response, render, beats, cancelled,
                   updates>>

(* the hash of the file's bytes names what the file holds *)
FileSHA256(file) == <<"sha256(", file.state>> \o to_string(file.frames) \o <<")">>

(* lines 557-573: hash the file, stream Complete, return OK *)
RenderEdlWindow_Complete(t) ==
    /\ t \in Renderers /\ pc[t] = "render:complete"
    /\ Write(t, CompleteEvent(FileSHA256(outFile), req[t].duration_samples,
                              render[t].compiledEdl.sample_rate))
    /\ Finish(t, "OK")
    /\ UNCHANGED <<cacheVars, pureVars, storeVars, req, bcastVars, response, render, outFile, beats, cancelled,
                   updates>>

----------------------------------------------------------------------------
(* AudioEngineServiceImpl::Subscribe *)

(* a variant of Subscribe that sends its initial events first and calls    *)
(* eventBroadcaster_.subscribe(writer) when it enters the heartbeat loop   *)
Subscribe_Register_late(t) ==
    /\ t \in Subscribers
    /\ \/ /\ pc[t] = "idle"
          /\ stream' = [stream EXCEPT ![t] = <<>>]
          /\ status' = [status EXCEPT ![t] = "running"]
          /\ beats' = [beats EXCEPT ![t] = 0]
          /\ Goto(t, "subscribe:status")
          /\ UNCHANGED subscribers_
       \/ /\ pc[t] = "subscribe:loop"
          /\ t \notin subscribers_
          /\ bcMutex = NoThread
          /\ subscribers_' = subscribers_ \cup {t}
          /\ UNCHANGED <<pc, stream, status, beats>>
    /\ UNCHANGED <<cacheVars, pureVars, storeVars, req, bcMutex, bcPending, bcEvent, bcLog, bcOrder, response,
                   render, outFile, cancelled, updates>>

(* the handler starts: eventBroadcaster_.subscribe(writer) *)
Subscribe_Register(t) ==
    /\ t \in Subscribers /\ pc[t] = "idle"
    /\ bcMutex = NoThread
    /\ subscribers_' = subscribers_ \cup {t}
    /\ stream' = [stream EXCEPT ![t] = <<>>]
    /\ status' = [status EXCEPT ![t] = "running"]
    /\ beats' = [beats EXCEPT ![t] = 0]
    /\ Goto(t, "subscribe:status")
    /\ UNCHANGED <<cacheVars, pureVars, storeVars, req, bcMutex, bcPending, bcEvent, bcLog, bcOrder, response,
                   render, outFile, cancelled, updates>>

(* writer->Write(statusEvent); then edlStore_.get() *)
Subscribe_Status(t) ==
    /\ t \in Subscribers /\ pc[t] = "subscribe:status"
    /\ Write(t, BackendStatusEvent)
    /\ EnterGet(t)
    /\ UNCHANGED <<cacheVars, pureVars, mutex_, current_, curTag, commits, returnedMax, req, newSnapshot,
                   out_snapshot, error, replaceOk, got, hasEdlResult, myCommit,
                   bcastVars, status, response, render, outFile, beats, cancelled,
                   updates>>

(* a variant of Subscribe that does not report the existing snapshot *)
Subscribe_AfterGet_noReplay(t) ==
    /\ t \in Subscribers /\ pc[t] = "get:ret"
    /\ got' = [got EXCEPT ![t] = [snap |-> NoSnapshot, tag |-> NoTags]]
    /\ getFloor' = [getFloor EXCEPT ![t] = 0]
    /\ Goto(t, "subscribe:loop")
    /\ UNCHANGED <<cacheVars, pureVars, mutex_, current_, curTag, commits, returnedMax, newSnapshot,
                   out_snapshot, error, replaceOk, hasEdlResult, myCommit, req,
                   bcastVars, rpcVars, updates>>

(* if (edlSnapshot) writer->Write(edlEvent); edlSnapshot is not read again *)
Subscribe_AfterGet(t) ==
    /\ t \in Subscribers /\ pc[t] = "get:ret"
    /\ IF got[t].snap.has
       THEN Write(t, EdlAppliedEvent(got[t].snap))
       ELSE UNCHANGED stream
    /\ got' = [got EXCEPT ![t] = [snap |-> NoSnapshot, tag |-> NoTags]]
    /\ getFloor' = [getFloor EXCEPT ![t] = 0]
    /\ Goto(t, "subscribe:loop")
    /\ UNCHANGED <<cacheVars, pureVars, mutex_, current_, curTag, commits, returnedMax, newSnapshot,
                   out_snapshot, error, replaceOk, hasEdlResult, myCommit, req,
                   bcastVars, status, response, render, outFile, beats, cancelled,
                   updates>>

(* a pass of the loop, entered because the call is not cancelled, in which *)
(* the heartbeat is due; Write may fail                                    *)
Subscribe_Heartbeat(t, written) ==
    /\ t \in Subscribers /\ pc[t] = "subscribe:loop"
    /\ ~cancelled[t]
    /\ beats[t] < MaxHeartbeats
    /\ beats' = [beats EXCEPT ![t] = @ + 1]
    /\ IF written THEN Write(t, HeartbeatEvent) ELSE UNCHANGED stream
    /\ Goto(t, IF written THEN "subscribe:loop" ELSE "subscribe:unsubscribe")
    /\ UNCHANGED <<cacheVars, pureVars, storeVars, req, bcastVars, status, response, render, outFile,
                   cancelled, updates>>

(* a variant of unsubscribe that erases without taking the mutex *)
Subscribe_Unsubscribe_unlocked(t) ==
    /\ t \in Subscribers /\ pc[t] \in {"subscribe:loop", "subscribe:unsubscribe"}
    /\ pc[t] = "subscribe:loop" => cancelled[t]
    /\ subscribers_' = subscribers_ \ {t}
    /\ Finish(t, "OK")
    /\ UNCHANGED <<cacheVars, pureVars, storeVars, req, bcMutex, bcPending, bcEvent, bcLog, bcOrder, stream,
                   response, render, outFile, beats, cancelled, updates>>

(* a variant of Subscribe that reports the cancellation in its status *)
Subscribe_Unsubscribe_reportsCancel(t) ==
    /\ t \in Subscribers /\ pc[t] \in {"subscribe:loop", "subscribe:unsubscribe"}
    /\ pc[t] = "subscribe:loop" => cancelled[t]
    /\ bcMutex = NoThread
    /\ subscribers_' = subscribers_ \ {t}
    /\ Finish(t, IF cancelled[t] THEN "CANCELLED" ELSE "OK")
    /\ UNCHANGED <<cacheVars, pureVars, storeVars, req, bcMutex, bcPending, bcEvent, bcLog, bcOrder, stream,
                   response, render, outFile, beats, cancelled, updates>>

(* the loop condition fails (context->IsCancelled(); running_ is never    *)
(* cleared) or the heartbeat was not written:                              *)
(* eventBroadcaster_.unsubscribe(writer); return Status::OK                *)
Subscribe_Unsubscribe(t) ==
    /\ t \in Subscribers /\ pc[t] \in {"subscribe:loop", "subscribe:unsubscribe"}
    /\ pc[t] = "subscribe:loop" => cancelled[t]
    /\ bcMutex = NoThread
    /\ subscribers_' = subscribers_ \ {t}
    /\ Finish(t, "OK")
    /\ UNCHANGED <<cacheVars, pureVars, storeVars, req, bcMutex, bcPending, bcEvent, bcLog, bcOrder, stream,
                   response, render, outFile, beats, cancelled,
                   updates>>

----------------------------------------------------------------------------
(* EdlRenderer::getReader, called by renderClip of every running render on  *)
(* the one edlRenderer_ of the service. Readers are numbered in the order   *)
(* of their creation; 0 is nullptr and the end() iterator.                  *)

MediaPaths == {"/m/a48.wav", "/m/c48.wav", "/m/notes.txt"}

NoReaderCall == [filePath |-> "", reader |-> 0, rawReader |-> 0]

ReadersMade == UNION {readerHeap.made[path] : path \in MediaPaths}

(* threads that are inside readerCache_[filePath] = std::move(reader) *)
Inserting == {t \in Threads : pc[t] = "reader:inserting"}

getReader_Call(t, filePath) ==
    /\ t \in Renderers /\ pc[t] = "idle"
    /\ lookups < MaxLookups
    /\ lookups' = lookups + 1
    /\ readerLocal' = [readerLocal EXCEPT ![t] = [NoReaderCall EXCEPT !.filePath = filePath]]
    /\ Goto(t, "reader:find")
    /\ UNCHANGED <<pureVars, storeVars, req, bcastVars, rpcVars, updates, readerCache_, readerHeap>>

(* readerCache_.find(filePath), without any lock. While another thread is  *)
(* modifying the map the lookup is a data race: it may miss, or return any  *)
(* reader that was ever made, destroyed ones included.                      *)
getReader_Find(t, it) ==
    /\ pc[t] = "reader:find"
    /\ IF Inserting \ {t} = {}
       THEN it = readerCache_[readerLocal[t].filePath]
       ELSE it \in {0} \cup ReadersMade
    /\ IF it # 0
       THEN /\ readerLocal' = [readerLocal EXCEPT ![t].rawReader = it]
            /\ Goto(t, "reader:ret")
       ELSE /\ Goto(t, "reader:create")
            /\ UNCHANGED readerLocal
    /\ UNCHANGED <<pureVars, storeVars, req, bcastVars, rpcVars, updates, readerCache_, readerHeap,
                   lookups>>

(* formatManager_.createReaderFor(file); if (!reader) return nullptr *)
getReader_Create(t) ==
    /\ pc[t] = "reader:create"
    /\ LET filePath == readerLocal[t].filePath
           id == Cardinality(ReadersMade) + 1
       IN IF FileAt(filePath).readable
          THEN /\ readerHeap' = [readerHeap EXCEPT !.made[filePath] = @ \cup {id}]
               /\ readerLocal' = [readerLocal EXCEPT ![t].reader = id, ![t].rawReader = id]
               /\ Goto(t, "reader:insert")
          ELSE /\ Goto(t, "reader:ret")
               /\ UNCHANGED <<readerHeap, readerLocal>>
    /\ UNCHANGED <<pureVars, storeVars, req, bcastVars, rpcVars, updates, readerCache_, lookups>>

(* readerCache_[filePath] = std::move(reader) begins *)
getReader_InsertBegin(t) ==
    /\ pc[t] = "reader:insert"
    /\ Goto(t, "reader:inserting")
    /\ UNCHANGED <<pureVars, storeVars, req, bcastVars, rpcVars, updates, cacheVars>>

(* ... and ends: the entry holds the new reader, and the unique_ptr it     *)
(* held before, if any, has destroyed its reader. Two insertions at the    *)
(* same time are a data race on the map: the entry may also be lost.       *)
getReader_InsertEnd(t, stored) ==
    /\ pc[t] = "reader:inserting"
    /\ stored \/ Inserting \ {t} # {}
    /\ LET filePath == readerLocal[t].filePath
           old == readerCache_[filePath]
       IN IF stored
          THEN /\ readerCache_' = [readerCache_ EXCEPT ![filePath] = readerLocal[t].reader]
               /\ readerHeap' = [readerHeap EXCEPT !.destroyed =
                                    @ \cup (IF old = 0 THEN {} ELSE {old})]
          ELSE /\ readerHeap' = [readerHeap EXCEPT !.destroyed = @ \cup {readerLocal[t].reader}]
               /\ UNCHANGED readerCache_
    /\ readerLocal' = [readerLocal EXCEPT ![t].reader = 0]
    /\ Goto(t, "reader:ret")
    /\ UNCHANGED <<pureVars, storeVars, req, bcastVars, rpcVars, updates, lookups>>

(* return rawReader: renderClip reads through it, then the call is over *)
getReader_Return(t) ==
    /\ pc[t] = "reader:ret"
    /\ readerLocal' = [readerLocal EXCEPT ![t] = NoReaderCall]
    /\ Goto(t, "idle")
    /\ UNCHANGED <<pureVars, storeVars, req, bcastVars, rpcVars, updates, readerCache_, readerHeap,
                   lookups>>

----------------------------------------------------------------------------
(* The legacy file path: LoadFile and Render on currentAudioSource, one    *)
(* call at a time. Positions and lengths are in samples.                   *)

legacyBlockSize == 44100

NoAudioSource == [exists |-> FALSE, reader |-> ""]

(* a variant that only asks whether there is a source object *)
isLoaded_ignoresReader(source) == source.exists

(* !currentAudioSource || !currentAudioSource->isLoaded() is ~isLoaded *)
isLoaded(source) == source.exists /\ source.reader # ""

NoLegacyCall == [rpc |-> "", pc |-> "idle", input_file |-> "", loadedAtEntry |-> FALSE,
                 startSample |-> 0, numSamplesToRender |-> 0, samplesRendered |-> 0,
                 stream |-> <<>>, blocks |-> <<>>, code |-> "none", cancelled |-> FALSE]

NoLegacy == [currentAudioSource |-> NoAudioSource, call |-> NoLegacyCall]

LegacyError(code) == [type |-> "Error", error_code |-> code, rendered |-> 0, of |-> 0]
LegacyProgress(rendered, of) ==
    [type |-> "Progress", error_code |-> "", rendered |-> rendered, of |-> of]
LegacyComplete == [type |-> "Complete", error_code |-> "", rendered |-> 0, of |-> 0]

(* loadFileInternal (117-153): the status and the source afterwards *)
loadFileInternal(inputPath, source) ==
    LET file == FileAt(inputPath) IN
    IF ~file.exists THEN [code |-> "NOT_FOUND", source |-> source]
    ELSE IF ~file.readable THEN [code |-> "INVALID_ARGUMENT", source |-> source]
    ELSE [code |-> "OK", source |-> [exists |-> TRUE, reader |-> inputPath]]

LegacyPaths == {"", "/m/a48.wav", "/m/l48.wav", "/m/notes.txt", "/m/missing.wav"}
LegacyStarts == {0, 50000}
LegacyDurations == {-1, 1000, 60000}

LoadFile(file_path) ==
    /\ legacy.call.pc = "idle"
    /\ LET load == loadFileInternal(file_path, legacy.currentAudioSource) IN
       legacy' = [currentAudioSource |-> load.source,
                  call |-> [NoLegacyCall EXCEPT !.rpc = "LoadFile", !.pc = "done",
                                                !.input_file = file_path,
                                                !.code = load.code]]
    /\ UNCHANGED <<cacheVars, clipTiming, mix, unlinked, storeVars, req, bcastVars, rpcVars,
                   updates, pc>>

(* Render, lines 200-272: the lazy load, the range, the first Progress;    *)
(* duration -1 stands for a request without duration                       *)
Render_Call(input_file, start, duration) ==
    /\ legacy.call.pc = "idle"
    /\ LET source == legacy.currentAudioSource
           call == [NoLegacyCall EXCEPT !.rpc = "Render", !.input_file = input_file,
                                        !.loadedAtEntry = (source.reader # ""), !.code = "OK"]
           load == loadFileInternal(input_file, source)
           loaded == IF isLoaded(source) THEN source ELSE load.source
           fileLength == FileAt(loaded.reader).lengthInSamples
           totalSamples == IF duration >= 0 THEN Min(start + duration, fileLength)
                           ELSE fileLength
           numSamplesToRender == totalSamples - start
       IN IF ~isLoaded(source) /\ input_file = ""
          THEN legacy' = [legacy EXCEPT !.call =
                             [call EXCEPT !.pc = "done",
                                          !.stream = <<LegacyError("NO_FILE_LOADED")>>]]
          ELSE IF ~isLoaded(source) /\ load.code # "OK"
          THEN legacy' = [currentAudioSource |-> load.source,
                          call |-> [call EXCEPT !.pc = "done",
                                       !.stream = <<LegacyError("LAZY_LOAD_FAILED")>>]]
          ELSE IF numSamplesToRender <= 0
          THEN legacy' = [currentAudioSource |-> loaded,
                          call |-> [call EXCEPT !.pc = "done",
                                       !.stream = <<LegacyError("INVALID_RANGE")>>]]
          ELSE legacy' = [currentAudioSource |-> loaded,
                          call |-> [call EXCEPT !.pc = "loop", !.startSample = start,
                                       !.numSamplesToRender = numSamplesToRender,
                                       !.stream = <<LegacyProgress(0, numSamplesToRender)>>]]
    /\ UNCHANGED <<cacheVars, clipTiming, mix, unlinked, storeVars, req, bcastVars, rpcVars,
                   updates, pc>>

(* OfflineRenderer::renderWindow: setPosition, renderToBuffer with its     *)
(* getNextAudioBlock calls, which read the file when there is a reader     *)
(* and leave silence otherwise, and then source.releaseResources(), which  *)
(* resets the reader                                                       *)
renderWindow(source) ==
    [fromFile |-> source.reader # "", source |-> [source EXCEPT !.reader = ""]]

(* the client cancels the Render *)
Render_Cancel ==
    /\ legacy.call.pc = "loop" /\ ~legacy.call.cancelled
    /\ legacy' = [legacy EXCEPT !.call.cancelled = TRUE]
    /\ UNCHANGED <<cacheVars, clipTiming, mix, unlinked, storeVars, req, bcastVars, rpcVars,
                   updates, pc>>

(* lines 285-333: one iteration of the while loop, or its end *)
Render_Block ==
    /\ legacy.call.pc = "loop"
    /\ LET call == legacy.call
           samplesThisBlock == Min(legacyBlockSize,
                                   call.numSamplesToRender - call.samplesRendered)
           samplesRendered == call.samplesRendered + samplesThisBlock
           block == renderWindow(legacy.currentAudioSource)
       IN IF call.cancelled
          THEN legacy' = [legacy EXCEPT !.call.pc = "done", !.call.code = "CANCELLED"]
          ELSE IF call.samplesRendered < call.numSamplesToRender
          THEN legacy' = [currentAudioSource |-> block.source,
                          call |-> [call EXCEPT
                                      !.samplesRendered = samplesRendered,
                                      !.blocks = Append(@, block.fromFile),
                                      !.stream = Append(@, LegacyProgress(samplesRendered,
                                                              call.numSamplesToRender))]]
          ELSE legacy' = [legacy EXCEPT !.call.pc = "write"]
    /\ UNCHANGED <<cacheVars, clipTiming, mix, unlinked, storeVars, req, bcastVars, rpcVars,
                   updates, pc>>

(* lines 335-398: the output file, then Complete *)
Render_WriteFile(created) ==
    /\ legacy.call.pc = "write"
    /\ legacy' = [legacy EXCEPT
                    !.call.pc = "done",
                    !.call.stream = Append(@, IF created THEN LegacyComplete
                                              ELSE LegacyError("FILE_WRITE_ERROR"))]
    /\ UNCHANGED <<cacheVars, clipTiming, mix, unlinked, storeVars, req, bcastVars, rpcVars,
                   updates, pc>>

(* the call has returned to the client *)
Legacy_Return ==
    /\ legacy.call.pc = "done"
    /\ legacy' = [legacy EXCEPT !.call = NoLegacyCall]
    /\ UNCHANGED <<cacheVars, clipTiming, mix, unlinked, storeVars, req, bcastVars, rpcVars,
                   updates, pc>>

----------------------------------------------------------------------------
(* The client cancels a streaming call; from then on context->IsCancelled() *)
(* is true for that call. Only the loop of Subscribe reads it (line 608),   *)
(* so a Subscribe call takes the cancellation at its loop; RenderEdlWindow  *)
(* and renderTimeRange never read it, and the cancellation of a render is   *)
(* taken while blocks remain to be rendered.                                *)
Client_Cancel(t) ==
    /\ t \in Writers /\ ~cancelled[t]
    /\ pc[t] = IF t \in Subscribers THEN "subscribe:loop" ELSE "render:block"
    /\ cancelled' = [cancelled EXCEPT ![t] = TRUE]
    /\ UNCHANGED <<cacheVars, pureVars, pc, storeVars, req, bcastVars, stream, status, response, render,
                   outFile, beats, updates>>

----------------------------------------------------------------------------
(* The call is over: request, response, stream and the handler's locals    *)
(* are destroyed, and the worker thread is free for the next call.         *)

Handler_Exit(t) ==
    /\ pc[t] = "done"
    /\ Goto(t, "idle")
    /\ req' = [req EXCEPT ![t] = NoRequest]
    /\ newSnapshot' = [newSnapshot EXCEPT ![t] = NoSnapshot]
    /\ out_snapshot' = [out_snapshot EXCEPT ![t] = NoSnapshot]
    /\ error' = [error EXCEPT ![t] = <<>>]
    /\ replaceOk' = [replaceOk EXCEPT ![t] = FALSE]
    /\ got' = [got EXCEPT ![t] = [snap |-> NoSnapshot, tag |-> NoTags]]
    /\ myCommit' = [myCommit EXCEPT ![t] = 0]
    /\ getFloor' = [getFloor EXCEPT ![t] = 0]
    /\ bcEvent' = [bcEvent EXCEPT ![t] = BlankEvent]
    /\ bcLog' = [bcLog EXCEPT ![t] = <<>>]
    /\ bcOrder' = [bcOrder EXCEPT !.delivered =
                      [w \in Subscribers |-> IF w = t THEN <<>> ELSE @[w]]]
    /\ stream' = [w \in Writers |-> IF w = t THEN <<>> ELSE stream[w]]
    /\ status' = [status EXCEPT ![t] = "none"]
    /\ response' = [response EXCEPT ![t] = NoResponse]
    /\ render' = [render EXCEPT ![t] = NoRender]
    /\ beats' = [beats EXCEPT ![t] = 0]
    /\ cancelled' = [cancelled EXCEPT ![t] = FALSE]
    /\ UNCHANGED <<cacheVars, pureVars, mutex_, current_, curTag, commits, returnedMax, hasEdlResult,
                   bcMutex, subscribers_, bcPending, outFile, updates>>

Init ==
    /\ pc = [t \in Threads |-> "idle"]
    /\ mutex_ = NoThread
    /\ current_ = NoSnapshot
    /\ curTag = NoTags
    /\ commits = 0
    /\ returnedMax = 0
    /\ req = [t \in Threads |-> NoRequest]
    /\ newSnapshot = [t \in Threads |-> NoSnapshot]
    /\ out_snapshot = [t \in Threads |-> NoSnapshot]
    /\ error = [t \in Threads |-> <<>>]
    /\ replaceOk = [t \in Threads |-> FALSE]
    /\ got = [t \in Threads |-> [snap |-> NoSnapshot, tag |-> NoTags]]
    /\ hasEdlResult = [t \in Threads |-> FALSE]
    /\ myCommit = [t \in Threads |-> 0]
    /\ getFloor = [t \in Threads |-> 0]
    /\ bcMutex = NoThread
    /\ subscribers_ = {}
    /\ bcPending = [t \in Threads |-> <<>>]
    /\ bcEvent = [t \in Threads |-> BlankEvent]
    /\ bcLog = [t \in Threads |-> <<>>]
    /\ bcOrder = [serial |-> 0,
                  ticket |-> [t \in Updaters |-> 0],
                  delivered |-> [w \in Subscribers |-> <<>>]]
    /\ stream = [w \in Writers |-> <<>>]
    /\ status = [t \in Threads |-> "none"]
    /\ response = [t \in Threads |-> NoResponse]
    /\ render = [t \in Threads |-> NoRender]
    /\ outFile = AbsentFile
    /\ updates = 0
    /\ beats = [t \in Threads |-> 0]
    /\ cancelled = [t \in Threads |-> FALSE]
    /\ readerCache_ = [path \in MediaPaths |-> 0]
    /\ readerHeap = [made |-> [path \in MediaPaths |-> {}], destroyed |-> {}]
    /\ readerLocal = [t \in Threads |-> NoReaderCall]
    /\ lookups = 0
    /\ clipTiming = NoClipTiming
    /\ mix = NoMix
    /\ unlinked = {}
    /\ legacy = NoLegacy

StoreStep(t) ==
    \/ replace_Lock(t)
    \/ replace_Validate(t)
    \/ replace_StoreEdl(t)
    \/ replace_StoreRest(t)
    \/ replace_Out(t)
    \/ get_Lock(t)
    \/ get_Copy(t)

(* a caller that only replaces the EDL *)
ReplacerStep(t, edls) ==
    \/ StoreStep(t)
    \/ \E edl \in edls : Direct_Replace(t, edl)
    \/ Direct_Return(t)

(* a caller of replace and get *)
GetReplaceStep(t, edls) ==
    \/ ReplacerStep(t, edls)
    \/ Direct_Get(t)

(* a caller of replace, get and hasEdl *)
DirectStep(t, edls) ==
    \/ GetReplaceStep(t, edls)
    \/ Direct_ReplaceGot(t)
    \/ Direct_HasEdl(t)
    \/ hasEdl_Lock(t)
    \/ hasEdl_Read(t)

UpdaterStep(t, edls) ==
    \/ StoreStep(t)
    \/ \E edl \in edls : UpdateEdl_Call(t, edl)
    \/ UpdateEdl_AfterReplace(t)
    \/ broadcast_Lock(t)
    \/ broadcast_Write(t)
    \/ broadcast_Unlock(t)
    \/ UpdateEdl_Return(t)
    \/ Handler_Exit(t)

(* a caller of RenderEdlWindow whose requests, and the outcomes of writing *)
(* the file, are drawn from the given sets                                 *)
RendererStepFor(t, edlIds, starts, durations, outcomes) ==
    \/ StoreStep(t)
    \/ \E edlId \in edlIds, start \in starts, duration \in durations :
          RenderEdlWindow_Call(t, edlId, start, duration)
    \/ RenderEdlWindow_AfterGet(t)
    \/ renderTimeRange_Block(t)
    \/ \E outcome \in outcomes : writeWavFile(t, outcome)
    \/ RenderEdlWindow_Complete(t)
    \/ Client_Cancel(t)
    \/ Handler_Exit(t)

RendererStep(t) ==
    RendererStepFor(t, EdlIds, StartSamples, DurationSamples, WavOutcomes)

(* a Subscribe call that is cancelled before its first heartbeat is due *)
SubscribeStep(t) ==
    \/ StoreStep(t)
    \/ Subscribe_Register(t)
    \/ Subscribe_Status(t)
    \/ Subscribe_AfterGet(t)
    \/ Client_Cancel(t)
    \/ Subscribe_Unsubscribe(t)
    \/ Handler_Exit(t)

SubscriberStep(t) ==
    \/ SubscribeStep(t)
    \/ \E written \in BOOLEAN : Subscribe_Heartbeat(t, written)

(* the EdlStore alone, one caller, every kind of EDL *)
NextStore == DirectStep("c0", StoreEdls)
SpecStore == Init /\ [][NextStore]_vars

(* the EdlStore alone, replace and get called on three threads *)
NextStoreMT == \E t \in Direct : GetReplaceStep(t, RpcEdls)
SpecStoreMT == Init /\ [][NextStoreMT]_vars

(* UpdateEdl on two threads and one open Subscribe stream *)
NextUpdate ==
    \/ \E t \in Updaters : UpdaterStep(t, RpcEdls)
    \/ SubscribeStep("s1")
SpecUpdate == Init /\ [][NextUpdate]_vars

(* one UpdateEdl caller and two open Subscribe streams *)
NextFanout ==
    \/ UpdaterStep("u1", FanoutEdls)
    \/ \E t \in Subscribers : SubscribeStep(t)
SpecFanout == Init /\ [][NextFanout]_vars

(* UpdateEdl on two threads and two Subscribe streams: broadcasts that find *)
(* other broadcasts, subscribes and unsubscribes waiting.                   *)
(* each stream is opened once *)
SubscribeOnceStep(t) ==
    \/ StoreStep(t)
    \/ Subscribe_Register(t)
    \/ Subscribe_Status(t)
    \/ Subscribe_AfterGet(t)
    \/ Client_Cancel(t)
    \/ Subscribe_Unsubscribe(t)

NextBlocking ==
    \/ \E t \in Updaters : UpdaterStep(t, {Edl2})
    \/ \E t \in Subscribers : SubscribeOnceStep(t)
SpecBlocking == Init /\ [][NextBlocking]_vars

(* one UpdateEdl caller and one Subscribe stream with its heartbeats *)
NextSubscribe ==
    \/ UpdaterStep("u1", {Edl1, Edl2})
    \/ SubscriberStep("s1")
SpecSubscribe == Init /\ [][NextSubscribe]_vars

(* the steps a worker thread takes by itself once its handler was entered: *)
(* a thread that can run is scheduled; the arrival of a call and the       *)
(* client's cancellation are not its steps                                 *)
UpdaterRun(t) ==
    \/ StoreStep(t)
    \/ UpdateEdl_AfterReplace(t)
    \/ broadcast_Lock(t)
    \/ broadcast_Write(t)
    \/ broadcast_Unlock(t)
    \/ UpdateEdl_Return(t)

SubscriberRun(t) ==
    \/ StoreStep(t)
    \/ Subscribe_Status(t)
    \/ Subscribe_AfterGet(t)
    \/ Subscribe_Unsubscribe(t)

SpecSubscribeFair ==
    SpecSubscribe /\ WF_vars(UpdaterRun("u1")) /\ WF_vars(SubscriberRun("s1"))

(* RenderEdlWindow on one thread while another thread replaces the EDL *)
NextRender ==
    \/ ReplacerStep("c0", RpcEdls)
    \/ RendererStep("r1")
SpecRender == Init /\ [][NextRender]_vars

(* UpdateEdl, RenderEdlWindow and Subscribe, one thread each: the two locks *)
NextLocks ==
    \/ UpdaterStep("u1", {Edl2})
    \/ RendererStepFor("r1", {"e2"}, {0}, {1}, {"ok"})
    \/ SubscribeStep("s1")
SpecLocks == Init /\ [][NextLocks]_vars

(* a render thread at the calls renderClip makes to getReader *)
ReaderStep(t) ==
    \/ \E filePath \in MediaPaths : getReader_Call(t, filePath)
    \/ \E it \in 0..MaxLookups : getReader_Find(t, it)
    \/ getReader_Create(t)
    \/ getReader_InsertBegin(t)
    \/ \E stored \in BOOLEAN : getReader_InsertEnd(t, stored)
    \/ getReader_Return(t)

(* two renders running at the same time on the one edlRenderer_ *)
NextCache == \E t \in Renderers : ReaderStep(t)
SpecCache == Init /\ [][NextCache]_vars

(* EdlCompiler::compile on the snapshots of EDLs with several clips a track *)
NextCompile ==
    \/ ReplacerStep("c0", CompileEdls)
    \/ RendererStepFor("r1", EdlIds, {0}, {1}, {"ok"})
SpecCompile == Init /\ [][NextCompile]_vars

(* validateClip alone, over the int64 range of a clip's timing fields *)
NextTiming ==
    \/ \E startInMedia \in StartsInMedia, duration \in Durations, media \in TimedMedia,
          onOverflow \in BOOLEAN :
          validateClip_Timing(startInMedia, duration, media, onOverflow)
    \/ validateClip_Return
SpecTiming == Init /\ [][NextTiming]_vars

(* the renderer alone, on every EDL, window and block size above *)
NextMix ==
    \/ \E edl \in MixEdls, start \in MixStarts, duration \in MixDurations,
          blockSize \in BlockSizes :
          renderToBuffer_Call(edl, start, duration, blockSize)
    \/ renderToBuffer_Return
SpecMix == Init /\ [][NextMix]_vars

(* the legacy calls of one client *)
NextLegacy ==
    \/ \E file_path \in LegacyPaths : LoadFile(file_path)
    \/ \E input_file \in LegacyPaths, start \in LegacyStarts, duration \in LegacyDurations :
          Render_Call(input_file, start, duration)
    \/ Render_Cancel
    \/ Render_Block
    \/ \E created \in BOOLEAN : Render_WriteFile(created)
    \/ Legacy_Return
SpecLegacy == Init /\ [][NextLegacy]_vars

(* the renderer on EDLs whose media files may have been deleted since *)
NextMixFiles ==
    \/ \E edl \in MixEdls, start \in MixStarts, duration \in MixDurations \ {1030} :
          renderToBuffer_Call(edl, start, duration, blockSize_)
    \/ renderToBuffer_Return
    \/ \E path \in {"/m/a48.wav", "/m/c48.wav"} : File_Remove(path)
SpecMixFiles == Init /\ [][NextMixFiles]_vars

(* the gRPC server: every worker thread runs its handler *)
Next ==
    \/ \E t \in Updaters : UpdaterStep(t, RpcEdls)
    \/ \E t \in Renderers : RendererStep(t)
    \/ \E t \in Subscribers : SubscriberStep(t)

Spec == Init /\ [][Next]_vars

----------------------------------------------------------------------------
(* Properties of the EdlStore *)

ReplaceLabels == {"replace:lock", "replace:validate", "replace:store_edl",
                  "replace:store_rest", "replace:out"}

(* what get() hands out for a given content of current_ *)
Stored(cur) == IF cur.has THEN cur ELSE NoSnapshot

(* C1: replace is all-or-nothing. For an EDL that breaks a validation rule, *)
(* no step of the call changes the stored snapshot or assigns out_snapshot,  *)
(* and the call returns false, whether the store was Empty or Loaded; for an *)
(* EDL that passes, the call returns true with out_snapshot equal to the     *)
(* stored snapshot. A later get() returns the stored snapshot and a later    *)
(* hasEdl() tells whether there is one.                                      *)
ReplaceAllOrNothing ==
    [][\A t \in Direct :
        /\ (pc[t] \in ReplaceLabels /\ req[t].edl \in InvalidEdls)
             => /\ current_' = current_
                /\ out_snapshot'[t] = out_snapshot[t]
                /\ pc'[t] = "replace:ret" => (~replaceOk'[t] /\ error'[t] # <<>>)
                /\ pc'[t] \notin {"replace:store_edl", "replace:store_rest", "replace:out"}
        /\ (pc[t] \in ReplaceLabels /\ req[t].edl \in ValidEdls /\ pc'[t] = "replace:ret")
             => /\ replaceOk'[t]
                /\ current_'.has
                /\ out_snapshot'[t] = current_'
                /\ out_snapshot'[t].edl.id = req[t].edl.id
        /\ (pc[t] = "get:copy" /\ pc'[t] = "get:ret")
             => got'[t].snap = Stored(current_)
        /\ (pc[t] = "has:read" /\ pc'[t] = "has:ret")
             => hasEdlResult'[t] = current_.has
    ]_vars

(* C1 witness: a rejected replace has returned on a Loaded store *)
ReplaceRejectedOnLoaded ==
    \E t \in Direct : /\ pc[t] = "replace:ret"
                      /\ ~replaceOk[t]
                      /\ req[t].edl \in InvalidEdls
                      /\ current_.has

(* C2: every get() returns no snapshot or one whose four fields were all    *)
(* committed by one successful replace, and a get() that starts after a     *)
(* successful replace has returned returns that replace's snapshot or a     *)
(* later one.                                                               *)
GetNeverTornNeverOlder ==
    \A t \in Threads :
        pc[t] = "get:ret" =>
            /\ got[t].snap.has =>
                 /\ got[t].tag.edl >= 1
                 /\ got[t].tag.revision = got[t].tag.edl
                 /\ got[t].tag.track_count = got[t].tag.edl
                 /\ got[t].tag.clip_count = got[t].tag.edl
                 /\ got[t].snap.revision = got[t].snap.edl.revision
                 /\ got[t].snap.track_count = Len(got[t].snap.edl.tracks)
            /\ getFloor[t] > 0 =>
                 /\ got[t].snap.has
                 /\ got[t].tag.edl >= getFloor[t]

(* C2 witness: a get() that started after the first replace had returned   *)
(* comes back with the snapshot of a second replace on another thread       *)
GetSeesNewerReplace ==
    \E t \in Direct : /\ pc[t] = "get:ret"
                      /\ getFloor[t] = 1
                      /\ got[t].snap.has
                      /\ got[t].tag.edl = 2
                      /\ \E u \in Direct \ {t} : pc[u] \in {"replace:out", "replace:ret"}

(* C3: the store only moves Empty -> Loaded. Once a replace has succeeded   *)
(* the store holds a snapshot in every later state, a hasEdl() started      *)
(* after that returns true and a get() started after that returns a         *)
(* snapshot, whatever replace calls succeed or fail in between.             *)
OnlyEmptyToLoaded ==
    /\ commits > 0 => (current_.edl # EmptyEdl)
    /\ returnedMax > 0 => current_.has
    /\ \A t \in Threads :
        /\ (pc[t] = "has:ret" /\ getFloor[t] > 0) => hasEdlResult[t]
        /\ (pc[t] = "get:ret" /\ getFloor[t] > 0) => got[t].snap.has

(* C3 witness: hasEdl() returns true to a caller whose last replace, made  *)
(* on the Loaded store, was rejected                                        *)
HasEdlAfterFailedReplace ==
    /\ pc["c0"] = "has:ret"
    /\ hasEdlResult["c0"]
    /\ getFloor["c0"] = 1
    /\ ~replaceOk["c0"] /\ error["c0"] # <<>>
    /\ commits = 1

----------------------------------------------------------------------------
(* Properties of UpdateEdl *)

UpdateLabels == ReplaceLabels \cup {"replace:ret", "broadcast:lock", "broadcast:write",
                                    "broadcast:ret"}

(* the writers a broadcast of t has written to, and how often to w *)
Recipients(t) == {bcLog[t][i].to : i \in DOMAIN bcLog[t]}
TimesWritten(t, w) == Cardinality({i \in DOMAIN bcLog[t] : bcLog[t][i].to = w})
Occurrences(events, e) == Cardinality({i \in DOMAIN events : events[i] = e})

(* the broadcast of t has gone through subscribers_ and still holds the lock *)
BroadcastOver(t) == pc[t] = "broadcast:write" /\ bcPending[t] = <<>>

(* every registered subscriber was written to exactly once, with event e,  *)
(* and nobody else was                                                      *)
DeliveredOnceToAll(t, e) ==
    /\ Recipients(t) = subscribers_
    /\ \A w \in subscribers_ : TimesWritten(t, w) = 1 /\ Occurrences(stream[w], e) >= 1
    /\ \A i \in DOMAIN bcLog[t] : bcLog[t][i].event = e

(* the number of clips over all tracks, counted as (track, clip) positions *)
ClipTotal(edl) ==
    Cardinality({p \in (DOMAIN edl.tracks) \X (1..16) : p[2] <= Len(edl.tracks[p[1]].clips)})

(* C4: UpdateEdl with an EDL that fails validation returns INVALID_ARGUMENT; *)
(* its one broadcast writes exactly one EdlError, carrying the request's    *)
(* edl id and the validation reason, to every subscriber registered at the  *)
(* time; the call broadcasts no EdlApplied, fills no response, and no step  *)
(* of it changes the store's snapshot.                                      *)
UpdateEdlInvalidReported ==
    /\ [](\A t \in Updaters :
            (pc[t] \in UpdateLabels \cup {"done"} /\ req[t].edl \in InvalidEdls) =>
               /\ \A i \in DOMAIN bcLog[t] :
                     /\ bcLog[t][i].event.type = "EdlError"
                     /\ bcLog[t][i].event.edl_id = req[t].edl.id
                     /\ bcLog[t][i].event.text = error[t]
                     /\ error[t] # <<>>
               /\ \A w \in Writers : TimesWritten(t, w) <= 1
               /\ BroadcastOver(t) =>
                     DeliveredOnceToAll(t, EdlErrorEvent(req[t].edl.id, error[t]))
               /\ response[t] = NoResponse
               /\ pc[t] = "done" => status[t] = "INVALID_ARGUMENT"
               /\ pc[t] # "done" => status[t] = "running")
    /\ [][\A t \in Updaters :
            (pc[t] \in UpdateLabels /\ req[t].edl \in InvalidEdls) => current_' = current_
       ]_vars

(* C4 witness: a rejected UpdateEdl has returned after its EdlError went to *)
(* two subscribers, on a Loaded store                                       *)
UpdateEdlRejectedSeenByTwo ==
    /\ pc["u1"] = "done"
    /\ status["u1"] = "INVALID_ARGUMENT"
    /\ req["u1"].edl \in InvalidEdls
    /\ Recipients("u1") = {"s1", "s2"}
    /\ Len(bcLog["u1"]) = 2
    /\ current_.has

(* C5: when UpdateEdl succeeds, the response's edl_id, revision,            *)
(* track_count and clip_count are those of the snapshot this call committed *)
(* (track_count the number of tracks, clip_count the number of clips over   *)
(* all tracks), its one broadcast writes exactly one EdlApplied with the    *)
(* same four values to every subscriber registered at the time, and the     *)
(* call broadcasts no EdlError.                                             *)
UpdateEdlAppliedReported ==
    /\ [](\A t \in Updaters :
            (pc[t] \in {"broadcast:lock", "broadcast:write", "broadcast:ret", "done"}
             /\ req[t].edl \in ValidEdls) =>
               /\ response[t].edl_id = req[t].edl.id
               /\ response[t].edl_id = out_snapshot[t].edl.id
               /\ response[t].revision = out_snapshot[t].revision
               /\ response[t].track_count = Len(req[t].edl.tracks)
               /\ response[t].clip_count = ClipTotal(req[t].edl)
               /\ \A i \in DOMAIN bcLog[t] :
                     /\ bcLog[t][i].event.type = "EdlApplied"
                     /\ bcLog[t][i].event.edl_id = response[t].edl_id
                     /\ bcLog[t][i].event.text = response[t].revision
                     /\ bcLog[t][i].event.track_count = response[t].track_count
                     /\ bcLog[t][i].event.clip_count = response[t].clip_count
               /\ \A w \in Writers : TimesWritten(t, w) <= 1
               /\ BroadcastOver(t) => DeliveredOnceToAll(t, bcEvent[t])
               /\ pc[t] = "done" => status[t] = "OK")
    /\ [][\A t \in Updaters :
            (pc[t] = "replace:out" /\ pc'[t] = "replace:ret") =>
               /\ replaceOk'[t]
               /\ out_snapshot'[t] = current_
               /\ curTag = [edl |-> myCommit[t], revision |-> myCommit[t],
                            track_count |-> myCommit[t], clip_count |-> myCommit[t]]
       ]_vars

(* C5 witness: an accepted UpdateEdl has returned and told the subscriber,  *)
(* after the other caller's UpdateEdl replaced its snapshot in the store    *)
UpdateEdlAppliedThenReplaced ==
    \E t \in Updaters :
        /\ pc[t] = "done"
        /\ status[t] = "OK"
        /\ req[t].edl \in ValidEdls
        /\ Len(bcLog[t]) = 1
        /\ myCommit[t] = 1
        /\ commits = 2
        /\ current_.has
        /\ current_.edl.id # response[t].edl_id
        /\ response[t].clip_count = 3

----------------------------------------------------------------------------
(* Properties of RenderEdlWindow *)

RenderLabels == {"get:lock", "get:copy", "get:ret", "render:block", "render:wav",
                 "render:complete"}

Terminal(e) == e.type \in {"Complete", "EdlError"}
CountOf(events, type) == Cardinality({i \in DOMAIN events : events[i].type = type})

(* the snapshot the call fetched is absent or has another id than asked for *)
NoSuchEdl(t) == ~got[t].snap.has \/ got[t].snap.edl.id # req[t].edl_id

(* the call has fetched its snapshot *)
Fetched(t) == pc[t] \in {"get:ret", "render:block", "render:wav", "render:complete", "done"}

(* C6: RenderEdlWindow that finds the store Empty, or finds a snapshot      *)
(* whose edl.id differs from the requested edl_id, returns NOT_FOUND with a *)
(* stream of exactly one event, an EdlError carrying the requested edl_id;  *)
(* it streams no Progress or Complete, renders no block and writes no file. *)
RenderUnknownEdlNotFound ==
    /\ [](\A t \in Renderers :
            (Fetched(t) /\ NoSuchEdl(t)) =>
               /\ pc[t] \in {"get:ret", "done"}
               /\ render[t] = NoRender
               /\ pc[t] = "get:ret" => stream[t] = <<>>
               /\ pc[t] = "done" =>
                     /\ status[t] = "NOT_FOUND"
                     /\ Len(stream[t]) = 1
                     /\ stream[t][1].type = "EdlError"
                     /\ stream[t][1].edl_id = req[t].edl_id
                     /\ stream[t][1].text # <<>>)
    /\ [][\A t \in Renderers :
            (Fetched(t) /\ NoSuchEdl(t) /\ pc[t] # "done") => outFile' = outFile
       ]_vars

(* C6 witness: a call naming another id than the stored one has returned,   *)
(* and the file an earlier render wrote is still there                      *)
RenderOtherIdReturned ==
    \E t \in Renderers :
        /\ pc[t] = "done"
        /\ status[t] = "NOT_FOUND"
        /\ got[t].snap.has
        /\ got[t].snap.edl.id # req[t].edl_id
        /\ outFile.state = "complete"

(* C7: every RenderEdlWindow call that fails, at whatever stage, returns a  *)
(* non-OK status and has an EdlError as the last event of its stream, and   *)
(* its stream holds no Complete.                                            *)
RenderFailureStreamsEdlError ==
    \A t \in Renderers :
        (pc[t] = "done" /\ status[t] # "OK") =>
            /\ status[t] \in {"NOT_FOUND", "INTERNAL", "INVALID_ARGUMENT"}
            /\ stream[t] # <<>>
            /\ stream[t][Len(stream[t])].type = "EdlError"
            /\ CountOf(stream[t], "Complete") = 0

(* C8: a RenderEdlWindow stream never holds more than one terminal event   *)
(* (Complete or EdlError), and the terminal event, if any, is the last one. *)
RenderOneTerminalEvent ==
    \A t \in Renderers :
        /\ CountOf(stream[t], "Complete") + CountOf(stream[t], "EdlError") <= 1
        /\ \A i \in DOMAIN stream[t] : Terminal(stream[t][i]) => i = Len(stream[t])
        /\ \A i \in DOMAIN stream[t] :
              stream[t][i].type \in {"Progress", "Complete", "EdlError"}

(* C8 witness: a stream of one Progress and then its Complete *)
RenderStreamEndsWithComplete ==
    \E t \in Renderers :
        /\ pc[t] = "done"
        /\ Len(stream[t]) = 2
        /\ stream[t][1].type = "Progress"
        /\ stream[t][2].type = "Complete"

(* C9: RenderEdlWindow with duration_samples <= 0, on a loaded EDL with the *)
(* requested id, returns INVALID_ARGUMENT, streams a single EdlError and no *)
(* Progress, and leaves the output file untouched.                          *)
RenderEmptyRangeInvalidArgument ==
    /\ [](\A t \in Renderers :
            (pc[t] = "done" /\ ~NoSuchEdl(t) /\ req[t].duration_samples <= 0) =>
               /\ status[t] = "INVALID_ARGUMENT"
               /\ Len(stream[t]) = 1
               /\ stream[t][1].type = "EdlError"
               /\ CountOf(stream[t], "Progress") = 0)
    /\ [][\A t \in Renderers :
            (pc[t] \in RenderLabels /\ req[t].duration_samples <= 0) => outFile' = outFile
       ]_vars

(* C10: a RenderEdlWindow that returns OK has streamed one Progress per     *)
(* rendered block, ceil(duration_samples / 4096) of them and so at least    *)
(* one, and then exactly one Complete, which is the last event and was      *)
(* written after the WAV file was written in full.                          *)
RenderSuccessStream ==
    \A t \in Renderers :
        /\ (pc[t] = "done" /\ status[t] = "OK") =>
            LET d == req[t].duration_samples
                blocks == (d + 4095) \div 4096
            IN /\ d > 0 /\ blocks >= 1
               /\ Len(stream[t]) = blocks + 1
               /\ \A i \in 1..blocks : stream[t][i].type = "Progress"
               /\ stream[t][blocks + 1].type = "Complete"
               /\ stream[t][blocks + 1].text = FileSHA256([state |-> "complete", frames |-> d])
               /\ outFile = [state |-> "complete", frames |-> d]
        /\ CountOf(stream[t], "Complete") > 0 => (pc[t] = "done" /\ status[t] = "OK")
        /\ pc[t] = "render:complete" => outFile.state = "complete"

(* C10 witness: 4097 samples were rendered in two blocks *)
RenderTwoBlocksComplete ==
    \E t \in Renderers :
        /\ pc[t] = "done"
        /\ status[t] = "OK"
        /\ req[t].duration_samples = 4097
        /\ Len(stream[t]) = 3
        /\ outFile.frames = 4097

----------------------------------------------------------------------------
(* Properties of Subscribe *)

(* C11: for every subscriber, under any interleaving of Subscribe with      *)
(* concurrent UpdateEdl calls, the first event on its stream is             *)
(* BackendStatus{"ready"}; the EdlApplied of an existing snapshot and every *)
(* broadcast event come after it.                                           *)
SubscribeFirstEventIsBackendStatus ==
    \A s \in Subscribers :
        stream[s] # <<>> => Head(stream[s]) = BackendStatusEvent

Elements(events) == {events[i] : i \in DOMAIN events}

(* no UpdateEdl call is running *)
NoUpdateRunning == \A u \in Updaters : pc[u] \in {"idle", "done"}

(* C12: if a stream is registered and an UpdateEdl then succeeds while the  *)
(* subscriber is still connected, the broadcast of that call eventually     *)
(* writes an EdlApplied with the update's edl_id and revision to the        *)
(* stream; and if a snapshot exists when Subscribe is called and no update  *)
(* runs meanwhile, the event right after BackendStatus is the EdlApplied of *)
(* that snapshot. The first part is stated for the stream s1 and the      *)
(* caller u1.                                                               *)
SubscriberSeesApplied ==
    /\ LET s == "s1"
           u == "u1"
       IN (s \in subscribers_ /\ pc[u] = "replace:ret" /\ replaceOk[u])
            ~> \/ s \notin subscribers_
               \/ /\ [to |-> s, event |-> EdlAppliedEvent(out_snapshot[u])]
                       \in Elements(bcLog[u])
                  /\ EdlAppliedEvent(out_snapshot[u]) \in Elements(stream[s])
    /\ [][\A s \in Subscribers :
            (/\ pc[s] = "get:ret" /\ pc'[s] = "subscribe:loop"
             /\ stream[s] = <<BackendStatusEvent>>
             /\ NoUpdateRunning
             /\ current_.has)
              => stream'[s] = <<BackendStatusEvent, EdlAppliedEvent(current_)>>
       ]_vars

(* C12 witness: a stream that began with BackendStatus and the EdlApplied   *)
(* of the stored snapshot later received the EdlApplied of another update   *)
SubscriberReplayThenBroadcast ==
    \E s \in Subscribers : \E u \in Updaters :
        /\ s \in subscribers_
        /\ Len(stream[s]) >= 3
        /\ stream[s][1] = BackendStatusEvent
        /\ stream[s][2].type = "EdlApplied"
        /\ stream[s][3] = EdlAppliedEvent(out_snapshot[u])
        /\ stream[s][3] # stream[s][2]
        /\ [to |-> s, event |-> stream[s][3]] \in Elements(bcLog[u])

SubscribeLabels == {"subscribe:status", "get:lock", "get:copy", "get:ret",
                    "subscribe:loop", "subscribe:unsubscribe"}

(* C13: a stream is in the broadcaster's subscriber set exactly while its   *)
(* Subscribe handler runs; once the handler has returned (cancelled, or a   *)
(* heartbeat was not written) the stream is out of the set, no broadcast    *)
(* still has it to visit, and nothing is written to it any more.            *)
SubscribedWhileRunning ==
    /\ [](\A s \in Subscribers :
            /\ s \in subscribers_ <=> pc[s] \in SubscribeLabels
            /\ pc[s] \in {"idle", "done"} =>
                  \A u \in Updaters : s \notin Elements(bcPending[u]))
    /\ [][\A s \in Subscribers :
            Len(stream'[s]) > Len(stream[s]) => pc[s] \in SubscribeLabels]_vars

(* C13 witness: the handler returned after a heartbeat was not written, and *)
(* a broadcast that ran to its end wrote to nobody                          *)
BroadcastAfterSubscriberLeft ==
    \E s \in Subscribers : \E u \in Updaters :
        /\ pc[s] = "done" /\ status[s] = "OK"
        /\ beats[s] = 1 /\ ~cancelled[s]
        /\ stream[s] # <<>>
        /\ s \notin subscribers_
        /\ pc[u] = "broadcast:ret" /\ bcLog[u] = <<>>

(* C14: once the client has cancelled a Subscribe stream, the handler       *)
(* leaves its loop, unregisters and returns OK; and whenever Subscribe      *)
(* returns, after a cancellation or after a heartbeat that was not written, *)
(* its status is OK. The first part is stated for the stream s1.            *)
SubscribeEndsOK ==
    /\ [](\A s \in Subscribers : pc[s] = "done" => status[s] = "OK")
    /\ cancelled["s1"] ~>
          (pc["s1"] = "done" /\ status["s1"] = "OK" /\ "s1" \notin subscribers_)

(* C14 witness: a stream that received a heartbeat and was then cancelled   *)
(* has ended with OK                                                        *)
SubscribeCancelledReturnedOK ==
    \E s \in Subscribers :
        /\ pc[s] = "done" /\ status[s] = "OK"
        /\ cancelled[s]
        /\ beats[s] = 1
        /\ stream[s][Len(stream[s])] = HeartbeatEvent
        /\ s \notin subscribers_

(* C15: for any single subscriber, the broadcast events on its stream are   *)
(* in the order in which their broadcasts took the broadcaster's mutex, for *)
(* every interleaving of concurrent UpdateEdl calls: the broadcasts written *)
(* to a stream carry increasing serial numbers, and each one was appended   *)
(* at the end of the stream as it was.                                      *)
DeliveredInSerialOrder ==
    /\ [](\A s \in Subscribers :
            LET d == bcOrder.delivered[s]
            IN /\ \A i, j \in DOMAIN d : i < j => d[i] < d[j]
               /\ Len(d) <= Len(stream[s]))
    /\ [][\A s \in Subscribers :
            Len(bcOrder'.delivered[s]) > Len(bcOrder.delivered[s]) =>
               \E u \in Updaters :
                  /\ bcOrder'.delivered[s] = Append(bcOrder.delivered[s], bcOrder.ticket[u])
                  /\ stream'[s] = Append(stream[s], bcEvent[u])
       ]_vars

(* C15 witness: one stream received the events of two UpdateEdl calls that  *)
(* ran at the same time, an EdlError and an EdlApplied                      *)
TwoBroadcastsOnOneStream ==
    \E s \in Subscribers :
        /\ bcOrder.delivered[s] = <<1, 2>>
        /\ \A u \in Updaters : s \in Recipients(u)
        /\ bcEvent["u1"].type # bcEvent["u2"].type
        /\ pc["u1"] = "broadcast:ret"
        /\ pc["u2"] = "broadcast:write"

----------------------------------------------------------------------------
(* Properties of a render that runs while the EDL is replaced *)

RenderingLabels == {"render:block", "render:wav", "render:complete"}

(* the blocks of a render that have been rendered so far *)
BlocksDone(samplesRendered) == (samplesRendered + blockSize_ - 1) \div blockSize_

(* what rendering the first samplesRendered samples of the range from the  *)
(* given snapshot reads                                                    *)
ReadsOf(snapshot, request, samplesRendered) ==
    UNION {LET blockStart == request.start_samples + (k - 1) * blockSize_
               blockEnd == request.start_samples + Min(k * blockSize_, samplesRendered)
           IN renderBlock(snapshot.edl, compile(snapshot), blockStart, blockEnd) :
              k \in 1..BlocksDone(samplesRendered)}

(* C16: a RenderEdlWindow renders the snapshot it fetched at the start of   *)
(* the call. While it compiles and renders, no step of another thread, a    *)
(* committing replace included, changes its copy of the snapshot or its     *)
(* compiled plan, and what it has read for the blocks rendered so far is    *)
(* what rendering the fetched snapshot reads.                               *)
RenderUsesFetchedSnapshot ==
    /\ [](\A t \in Renderers :
            pc[t] \in RenderingLabels =>
               /\ render[t].compiledEdl = compile(got[t].snap)
               /\ render[t].reads = ReadsOf(got[t].snap, req[t], render[t].samplesRendered))
    /\ [][\A t \in Renderers :
            (pc[t] \in RenderingLabels /\ pc'[t] \in RenderingLabels) =>
               /\ got'[t] = got[t]
               /\ render'[t].compiledEdl = render[t].compiledEdl
       ]_vars

(* C16 witness: a render of two blocks that read from the media file has    *)
(* written its file while the store already holds another EDL               *)
RenderOutlivesReplace ==
    \E t \in Renderers :
        /\ pc[t] = "render:complete"
        /\ render[t].samplesRendered = 4097
        /\ Cardinality(render[t].reads) = 2
        /\ current_.has
        /\ current_.edl.id # got[t].snap.edl.id

(* C17: once the client has cancelled a RenderEdlWindow stream while blocks *)
(* remain to be rendered, the render stops at the block boundary: no        *)
(* further block is rendered, the output file is not written, and no        *)
(* Complete or EdlError is streamed.                                        *)
RenderStopsOnCancel ==
    [][\A t \in Renderers :
          cancelled[t] =>
             /\ render'[t].samplesRendered <= render[t].samplesRendered
             /\ outFile' = outFile
             /\ \A i \in DOMAIN stream'[t] : ~Terminal(stream'[t][i])
      ]_vars

----------------------------------------------------------------------------
(* Properties of the two locks *)

(* where a thread is while it holds EdlStore::mutex_ *)
InsideStore == {"replace:validate", "replace:store_edl", "replace:store_rest",
                "replace:out", "get:copy", "has:read"}

(* the thread takes this step *)
Acts(t) == pc'[t] # pc[t] \/ bcPending'[t] # bcPending[t] \/ beats'[t] # beats[t]

(* the step writes to some stream *)
WritesToStream == \E w \in Writers : Len(stream'[w]) > Len(stream[w])

(* the steps open to a thread that holds one of the locks *)
HolderStep(t) == StoreStep(t) \/ broadcast_Write(t) \/ broadcast_Unlock(t)

(* C18: no thread writes to a stream or waits for the broadcaster's mutex   *)
(* while it holds the EdlStore mutex, and the progress callback of          *)
(* RenderEdlWindow does not take the EdlStore mutex; a thread that holds    *)
(* either lock waits for no lock and can always take its next step, so      *)
(* UpdateEdl, RenderEdlWindow and Subscribe cannot deadlock on the locks.   *)
LockDiscipline ==
    /\ [](\A t \in Threads :
            /\ mutex_ = t => pc[t] \in InsideStore /\ bcMutex # t
            /\ bcMutex = t => pc[t] = "broadcast:write"
            /\ pc[t] \in RenderingLabels => mutex_ # t
            /\ (mutex_ = t \/ bcMutex = t) => ENABLED HolderStep(t))
    /\ [][\A t \in Threads :
            /\ (Acts(t) /\ (WritesToStream \/ bcMutex' # bcMutex))
                  => (mutex_ # t /\ mutex_' # t)
            /\ (Acts(t) /\ pc[t] \in RenderingLabels) => mutex_' = mutex_
       ]_vars

(* C18 witness: a broadcast is writing to a stream while the render thread  *)
(* holds the EdlStore mutex in get()                                        *)
BroadcastWhileStoreLocked ==
    /\ bcMutex = "u1" /\ pc["u1"] = "broadcast:write"
    /\ bcPending["u1"] = <<"s1">>
    /\ mutex_ = "r1" /\ pc["r1"] = "get:copy"
    /\ stream["r1"] = <<>>

----------------------------------------------------------------------------
(* Properties of the reader cache *)

(* C19: the reader cache is concurrent-safe. No two threads are between the *)
(* lookup and the end of the insertion of getReader at the same time, at    *)
(* most one reader is ever created per path, and a caller that is handed a  *)
(* reader holds the one the cache holds for the path, which is not          *)
(* destroyed.                                                               *)
ReaderCacheConcurrentSafe ==
    /\ Cardinality({t \in Threads :
                       pc[t] \in {"reader:create", "reader:insert", "reader:inserting"}}) <= 1
    /\ \A path \in MediaPaths : Cardinality(readerHeap.made[path]) <= 1
    /\ \A t \in Threads :
          (pc[t] = "reader:ret" /\ readerLocal[t].rawReader # 0) =>
             /\ readerLocal[t].rawReader = readerCache_[readerLocal[t].filePath]
             /\ readerLocal[t].rawReader \notin readerHeap.destroyed

----------------------------------------------------------------------------
(* Properties of the media list *)

MediaWithId(edl, id) == {i \in DOMAIN edl.media : edl.media[i].id = id}

HasDuplicateMediaId(edl) == \E i, j \in DOMAIN edl.media : i # j /\ edl.media[i].id = edl.media[j].id

(* C20: replace rejects every EDL in which two media entries have the same  *)
(* id and leaves the store as it was; so in every stored snapshot the       *)
(* media_id of each clip names exactly one media entry.                     *)
DuplicateMediaIdRejected ==
    /\ \A t \in Direct :
          (pc[t] = "replace:ret" /\ HasDuplicateMediaId(req[t].edl)) => ~replaceOk[t]
    /\ current_.has =>
          \A i \in DOMAIN current_.edl.tracks :
             \A j \in DOMAIN current_.edl.tracks[i].clips :
                Cardinality(MediaWithId(current_.edl,
                                        current_.edl.tracks[i].clips[j].media_id)) = 1

----------------------------------------------------------------------------
(* C21: validateClip accepts the bounds of a clip exactly when             *)
(* start_in_media + duration <= media length as mathematical integers,     *)
(* for every int64 start_in_media >= 0 and duration > 0: the check is not  *)
(* passed by a sum that wraps around                                       *)
ClipBoundsExact ==
    clipTiming.checked =>
        LET sum == AddInt64(clipTiming.start_in_media, clipTiming.duration)
            within == ~sum.overflow /\ ~GreaterInt64(sum.value, clipTiming.mediaLength)
        IN clipTiming.ok <=> within

(* C22: the revision a successful replace assigns depends only on the EDL  *)
(* with its revision field cleared: EDLs that differ in nothing but the    *)
(* client-supplied revision get the same revision string                   *)
RevisionIgnoresClientRevision ==
    \A t \in Direct :
        pc[t] = "replace:ret" /\ replaceOk[t] =>
            out_snapshot[t].revision =
                calculateRevision([req[t].edl EXCEPT !.revision = <<>>])

(* C23: replace is idempotent on its own output: replace(get().edl) in a   *)
(* Loaded state succeeds and returns the revision that was current before  *)
ReplaceOfCurrentKeepsRevision ==
    \A t \in Direct :
        pc[t] = "replace:ret" /\ got[t].snap.has /\ req[t].edl = got[t].snap.edl =>
            replaceOk[t] /\ out_snapshot[t].revision = got[t].snap.revision

(* the compiled clips of one track are its clips, each once, with the      *)
(* timeline span of its clip, in ascending t0, equal t0 in EDL order       *)
SortedTrack(track, compiledTrack) ==
    LET src == track.clips
        out == compiledTrack.clips
    IN /\ Len(out) = Len(src)
       /\ {out[k].clip : k \in DOMAIN out} = DOMAIN src
       /\ \A k \in DOMAIN out :
             /\ out[k].clip \in DOMAIN src
             /\ out[k].t0 = src[out[k].clip].start_in_timeline
             /\ out[k].t1 = out[k].t0 + src[out[k].clip].duration
       /\ \A k, l \in DOMAIN out :
             k < l => \/ out[k].t0 < out[l].t0
                      \/ out[k].t0 = out[l].t0 /\ out[k].clip < out[l].clip

(* C24: for every validated snapshot compile succeeds with one compiled    *)
(* track per EDL track, in order; each compiled track holds a permutation  *)
(* of the track's clips with t0 = start_in_timeline, t1 = t0 + duration,   *)
(* sorted by t0 ascending, clips of equal t0 in their EDL order            *)
CompileSortsStably ==
    \A t \in Renderers :
        /\ got[t].snap.has => compile(got[t].snap).ok
        /\ pc[t] \in RenderingLabels =>
              LET edl == got[t].snap.edl
                  plan == render[t].compiledEdl
              IN /\ plan.ok
                 /\ Len(plan.tracks) = Len(edl.tracks)
                 /\ \A i \in DOMAIN plan.tracks :
                       /\ plan.tracks[i].muted = edl.tracks[i].muted
                       /\ plan.tracks[i].gain_db = edl.tracks[i].gain_db
                       /\ SortedTrack(edl.tracks[i], plan.tracks[i])

(* C24 witness: a compiled track whose clips were reordered and in which   *)
(* two clips of equal t0 follow each other                                 *)
CompiledTrackWithTie ==
    \E t \in Renderers :
        /\ pc[t] \in RenderingLabels
        /\ \E i \in DOMAIN render[t].compiledEdl.tracks :
              LET out == render[t].compiledEdl.tracks[i].clips IN
              /\ \E k, l \in DOMAIN out : k < l /\ out[k].clip > out[l].clip
              /\ \E k, l \in DOMAIN out : k < l /\ out[k].t0 = out[l].t0

(* C25: whenever render_to_buffer is called on a compiled EDL with a range *)
(* of positive duration it succeeds, and its buffer has exactly            *)
(* duration_samples frames and max(2, the largest channel count among all  *)
(* media entries of the EDL) channels, whether or not a clip references    *)
(* the widest media.                                                       *)
BufferShapeFromAllMedia ==
    (mix.called /\ mix.duration > 0) =>
        /\ mix.rendered.ok
        /\ getNumSamples(mix.rendered.frames) = mix.duration
        /\ \A i \in DOMAIN mix.edl.media : mix.edl.media[i].channels <= mix.rendered.channels
        /\ \/ mix.rendered.channels = 2
           \/ \E i \in DOMAIN mix.edl.media : mix.edl.media[i].channels = mix.rendered.channels

(* the EDL of the last call, compiled, and what renderTimeRange makes of   *)
(* another EDL over the same window with the same block size, as a whole   *)
(* and at frame j                                                          *)
MixCompiled == compile([edl |-> mix.edl])
RenderedOf(edl) ==
    renderTimeRange(edl, compile([edl |-> edl]), mix.start, mix.duration, mix.blockSize)
FrameOf(edl, j) ==
    outputFrame(edl, compile([edl |-> edl]), mix.start, mix.duration, mix.blockSize, j)

(* C26: block-size independence: whatever the EDL and the range, the       *)
(* buffer rendered is, sample for sample, the one that rendering with      *)
(* block size 1024, 4096 or 16384 produces.                                *)
BlockSizeIndependent ==
    (mix.called /\ mix.rendered.ok) =>
        \A blockSize \in BlockSizes :
            renderTimeRange(mix.edl, MixCompiled, mix.start, mix.duration, blockSize)
                = mix.rendered

(* one track, not muted, holding one clip *)
OneClipEdl(edl) ==
    /\ Len(edl.tracks) = 1
    /\ ~edl.tracks[1].muted
    /\ Len(edl.tracks[1].clips) = 1

(* the sample the clip of a one-clip EDL is to give at timeline position   *)
(* s: the media frame, the clip gain, the fade-in gain inside [t0, t0+d),  *)
(* the fade-out gain inside [t1-d, t1), the track gain                     *)
FadedSampleAt(edl, s) ==
    LET track == edl.tracks[1]
        clip == track.clips[1]
        t0 == clip.start_in_timeline
        t1 == t0 + clip.duration
        source == MediaFrame(DerefMedia(edl, findMediaById(edl, clip.media_id)).path,
                             clip.start_in_media + (s - t0))
        gained == Scale(source, dbToLinear(clip.gain_db))
        fadedIn == IF clip.fade_in.has /\ clip.fade_in.duration_samples > 0
                      /\ s >= t0 /\ s < t0 + clip.fade_in.duration_samples
                   THEN Scale(gained, calculateFadeGain(convertFade(clip.fade_in).shape, TRUE,
                                                        s - t0, clip.fade_in.duration_samples))
                   ELSE gained
        fadedOut == IF clip.fade_out.has /\ clip.fade_out.duration_samples > 0
                       /\ s >= t1 - clip.fade_out.duration_samples /\ s < t1
                    THEN Scale(fadedIn,
                               calculateFadeGain(convertFade(clip.fade_out).shape, FALSE,
                                                 s - (t1 - clip.fade_out.duration_samples),
                                                 clip.fade_out.duration_samples))
                    ELSE fadedIn
    IN IF s >= t0 /\ s < t1 THEN Scale(fadedOut, dbToLinear(track.gain_db)) ELSE Silence

HasFade(clip) ==
    \/ clip.fade_in.has /\ clip.fade_in.duration_samples > 0
    \/ clip.fade_out.has /\ clip.fade_out.duration_samples > 0

(* C27: for a clip with a fade of length d > 0, whatever its start t0 and  *)
(* the render window, the fade gain multiplies exactly the output samples  *)
(* at the timeline positions inside fade span, clip and window: the        *)
(* fade-in g((s - t0)/d) on [t0, t0+d), the fade-out g(1 - (s-(t1-d))/d)   *)
(* on [t1-d, t1), and no other sample is changed.                          *)
FadeGainAtItsPositions ==
    (mix.called /\ mix.rendered.ok /\ OneClipEdl(mix.edl)
       /\ HasFade(mix.edl.tracks[1].clips[1])) =>
        \A j \in DOMAIN mix.rendered.frames :
            mix.rendered.frames[j] = FadedSampleAt(mix.edl, mix.start + j)

(* one track, not muted, holding one clip of unity gain without fades *)
UnityClipEdl(edl) ==
    /\ OneClipEdl(edl)
    /\ edl.tracks[1].clips[1].gain_db = 0
    /\ ~HasFade(edl.tracks[1].clips[1])

(* the media frame at start_in_media + (s - t0) inside [t0, t1), else zero *)
MediaFrameAt(edl, s) ==
    LET clip == edl.tracks[1].clips[1]
        t0 == clip.start_in_timeline
    IN IF s >= t0 /\ s < t0 + clip.duration
       THEN MediaFrame(DerefMedia(edl, findMediaById(edl, clip.media_id)).path,
                       clip.start_in_media + (s - t0))
       ELSE Silence

(* C28 as stated: for a single non-muted track holding one unity-gain clip *)
(* without fades, the output frame for timeline position s of the window   *)
(* is the media frame at start_in_media + (s - t0) when t0 <= s < t1 and   *)
(* zero otherwise, for every window and block layout.                      *)
UnityClipFramesInPlace_anyTrackGain ==
    (mix.called /\ mix.rendered.ok /\ UnityClipEdl(mix.edl)) =>
        \A j \in DOMAIN mix.rendered.frames :
            mix.rendered.frames[j] = MediaFrameAt(mix.edl, mix.start + j)

(* C28: for a single non-muted track of gain 0 dB holding one unity-gain   *)
(* clip without fades, the output frame for timeline position s of the     *)
(* window is the media frame at start_in_media + (s - t0) when             *)
(* t0 <= s < t1 and zero otherwise, for every window and block layout; a   *)
(* window that starts beyond all clips is duration_samples frames of       *)
(* silence.                                                                *)
UnityClipFramesInPlace ==
    (mix.called /\ mix.rendered.ok /\ UnityClipEdl(mix.edl)
       /\ mix.edl.tracks[1].gain_db = 0) =>
        /\ \A j \in DOMAIN mix.rendered.frames :
              mix.rendered.frames[j] = MediaFrameAt(mix.edl, mix.start + j)
        /\ mix.start >= mix.edl.tracks[1].clips[1].start_in_timeline
                          + mix.edl.tracks[1].clips[1].duration
              => mix.rendered.frames = ClearBuffer(mix.duration)

(* a unity clip on a 0 dB track rendered in more than one block, the clip  *)
(* lying across the boundary of two blocks and starting after the window   *)
UnityClipAcrossBlocks ==
    /\ mix.called /\ mix.rendered.ok /\ UnityClipEdl(mix.edl)
    /\ mix.edl.tracks[1].gain_db = 0
    /\ mix.blockSize < mix.duration
    /\ mix.rendered.frames[mix.blockSize - 1] # Silence
    /\ mix.rendered.frames[mix.blockSize] # Silence
    /\ mix.rendered.frames[0] = Silence

(* the EDL reduced to clip clipIdx of track trackIdx *)
SoloEdl(edl, trackIdx, clipIdx) ==
    [edl EXCEPT !.tracks = <<[edl.tracks[trackIdx] EXCEPT
                                !.clips = <<edl.tracks[trackIdx].clips[clipIdx]>>]>>]

(* the sum, at frame j, of the contributions of the clips k.. of track     *)
(* trackIdx in compiled order and of the tracks after it, each clip        *)
(* rendered alone on its track; muted tracks are passed over               *)
RECURSIVE SumOfContributions(_, _, _)
SumOfContributions(trackIdx, k, j) ==
    IF trackIdx > Len(MixCompiled.tracks) THEN Silence
    ELSE IF MixCompiled.tracks[trackIdx].muted \/ k > Len(MixCompiled.tracks[trackIdx].clips)
    THEN SumOfContributions(trackIdx + 1, 1, j)
    ELSE FrameOf(SoloEdl(mix.edl, trackIdx, MixCompiled.tracks[trackIdx].clips[k].clip), j)
           \o SumOfContributions(trackIdx, k + 1, j)

(* C29: mixing is additive: every output sample is the sum, over the       *)
(* non-muted tracks and all their clips, of the clip's own rendered        *)
(* contribution (source x clip gain x fades x track gain); overlapping     *)
(* clips sum pointwise, none replaces or masks another.                    *)
MixIsSumOfClips ==
    (mix.called /\ mix.rendered.ok) =>
        \A j \in DOMAIN mix.rendered.frames :
            mix.rendered.frames[j] = SumOfContributions(1, 1, j)

(* a frame to which two clips of one track and a clip of another track     *)
(* contribute                                                              *)
ThreeClipsOverlap ==
    /\ mix.called /\ mix.rendered.ok
    /\ \E j \in DOMAIN mix.rendered.frames :
          /\ Len(mix.rendered.frames[j]) = 3
          /\ mix.rendered.frames[j][1].path # mix.rendered.frames[j][2].path
          /\ mix.rendered.frames[j][3].gains # <<>>

(* C30: a muted track contributes zero to every output sample whatever its *)
(* gain and its clips' gains: rendering an EDL gives the same buffer as    *)
(* rendering it with all muted tracks removed.                             *)
MutedTracksRemovable ==
    (mix.called /\ mix.rendered.ok) =>
        RenderedOf([mix.edl EXCEPT
                      !.tracks = SelectSeq(@, LAMBDA track : ~track.muted)])
            = mix.rendered

(* the EDL without the clips whose muted flag is set *)
WithoutMutedClips(edl) ==
    [edl EXCEPT !.tracks =
        [i \in DOMAIN @ |->
            [@[i] EXCEPT !.clips = SelectSeq(@, LAMBDA clip : ~clip.muted)]]]

(* C31: a muted clip contributes zero to every output sample: rendering an *)
(* EDL gives the same buffer as rendering it with every clip whose muted   *)
(* flag is true removed.                                                   *)
MutedClipsRemovable ==
    (mix.called /\ mix.rendered.ok) => RenderedOf(WithoutMutedClips(mix.edl)) = mix.rendered

(* the paths renderClip asks getReader for: the media of the clips of the  *)
(* non-muted tracks that lie in the window                                 *)
PathsRendered ==
    {DerefMedia(mix.edl, MixCompiled.tracks[i].clips[k].media).path :
        <<i, k>> \in {p \in (DOMAIN MixCompiled.tracks) \X (1 .. 4) :
                        /\ ~MixCompiled.tracks[p[1]].muted
                        /\ p[2] \in DOMAIN MixCompiled.tracks[p[1]].clips
                        /\ MixCompiled.tracks[p[1]].clips[p[2]].t1 > mix.start
                        /\ MixCompiled.tracks[p[1]].clips[p[2]].t0 < mix.start + mix.duration}}

(* C32: if the reader for a media path referenced by a clip in the window  *)
(* cannot be obtained during a render, the render fails (no success        *)
(* result) instead of treating the clip as silence.                        *)
ReaderFailureFailsRender ==
    (mix.called /\ mix.duration > 0 /\ PathsRendered \cap unlinked # {}) => ~mix.rendered.ok

(* C33: if writing the WAV fails after the output file has been created    *)
(* (the writer cannot be created, or the sample write fails), the render   *)
(* returns an error and no file, partial or otherwise, remains at          *)
(* out_path.                                                               *)
WavFailureLeavesNoFile ==
    [][\A t \in Renderers :
          (pc[t] = "render:wav" /\ status'[t] = "INTERNAL") => outFile'.state = "absent"]_vars

----------------------------------------------------------------------------
(* Properties of the legacy file path *)

LegacyErrorCodes(responses) ==
    {responses[i].error_code :
        i \in {j \in DOMAIN responses : responses[j].type = "Error"}}

(* the Render in progress goes on to render: no lazy-load error, a first   *)
(* Progress unless the range is empty, and the first block read from the   *)
(* file                                                                    *)
RenderGoesOn(call) ==
    /\ LegacyErrorCodes(call.stream) \cap {"NO_FILE_LOADED", "LAZY_LOAD_FAILED"} = {}
    /\ \/ call.stream = <<LegacyError("INVALID_RANGE")>>
       \/ call.stream[1] = LegacyProgress(0, call.numSamplesToRender)
    /\ call.blocks # <<>> => call.blocks[1]

(* C34: lazy load of the legacy Render: when no file is loaded, Render     *)
(* with a loadable input_file loads it and renders; with an empty          *)
(* input_file it streams exactly one Error NO_FILE_LOADED; with an         *)
(* input_file that cannot be loaded exactly one Error LAZY_LOAD_FAILED; in *)
(* both error cases nothing else is streamed and no file becomes loaded;   *)
(* when a file was loaded before, Render renders it.                       *)
RenderLazyLoads ==
    legacy.call.rpc = "Render" =>
        LET call == legacy.call
            file == FileAt(call.input_file)
        IN CASE call.loadedAtEntry -> RenderGoesOn(call)
             [] ~call.loadedAtEntry /\ call.input_file = "" ->
                    /\ call.pc = "done"
                    /\ call.stream = <<LegacyError("NO_FILE_LOADED")>>
                    /\ ~isLoaded(legacy.currentAudioSource)
             [] ~call.loadedAtEntry /\ call.input_file # ""
                  /\ ~(file.exists /\ file.readable) ->
                    /\ call.pc = "done"
                    /\ call.stream = <<LegacyError("LAZY_LOAD_FAILED")>>
                    /\ ~isLoaded(legacy.currentAudioSource)
             [] OTHER ->
                    /\ RenderGoesOn(call)
                    /\ call.blocks = <<>> =>
                          legacy.currentAudioSource.reader = call.input_file

(* a Render of more than one block that found no file loaded, loaded its  *)
(* input_file and went through to Complete                                *)
RenderLazyLoadedToComplete ==
    /\ legacy.call.rpc = "Render" /\ ~legacy.call.loadedAtEntry
    /\ legacy.call.pc = "done"
    /\ legacy.call.input_file = "/m/l48.wav"
    /\ Len(legacy.call.blocks) > 1
    /\ legacy.call.stream[Len(legacy.call.stream)] = LegacyComplete

(* C40: a file loaded by LoadFile, or lazy-loaded by Render, stays loaded  *)
(* until another load replaces it: after every rendered block and after    *)
(* every Render currentAudioSource.isLoaded() is still true, and every     *)
(* block of a Render reads the file.                                       *)
LoadedFileStaysLoaded ==
    [][/\ isLoaded(legacy.currentAudioSource) => isLoaded(legacy'.currentAudioSource)
       /\ \A i \in DOMAIN legacy'.call.blocks : legacy'.call.blocks[i]]_vars

----------------------------------------------------------------------------
(* Properties of the progress callback *)

(* the Progress events of a stream, in the order they were written *)
ProgressOf(events) == SelectSeq(events, LAMBDA e : e.type = "Progress")

(* C35: during a render the progress callback is invoked once after each    *)
(* block with fraction = samples_rendered / duration_samples: the fractions *)
(* are strictly increasing, each lies in (0, 1], and the last one is        *)
(* exactly 1; there is no callback when the range is rejected.              *)
ProgressFractions ==
    \A t \in Renderers :
        LET progress == ProgressOf(stream[t])
            d == req[t].duration_samples
            blocks == IF pc[t] \in {"render:block", "render:wav", "render:complete"}
                      THEN (render[t].samplesRendered + blockSize_ - 1) \div blockSize_
                      ELSE Len(progress)
        IN /\ Len(progress) = blocks
           /\ \A i \in DOMAIN progress :
                 /\ progress[i].den = d
                 /\ progress[i].num = Min(i * blockSize_, d)
                 /\ 0 < progress[i].num /\ progress[i].num <= progress[i].den
                 /\ i > 1 => progress[i - 1].num * progress[i].den
                                < progress[i].num * progress[i - 1].den
           /\ (pc[t] # "render:block" /\ Len(progress) > 0) =>
                 progress[Len(progress)].num = progress[Len(progress)].den
           /\ (pc[t] \in {"render:wav", "render:complete"}) => Len(progress) > 0
           /\ (Fetched(t) /\ d <= 0) => Len(progress) = 0

(* C35 witness: the loop over 4097 samples has ended after the fractions    *)
(* 4096/4097 and 4097/4097                                                  *)
ProgressOfTwoBlocks ==
    \E t \in Renderers :
        /\ pc[t] = "render:wav"
        /\ ProgressOf(stream[t]) = <<ProgressEvent(blockSize_, blockSize_ + 1),
                                     ProgressEvent(blockSize_ + 1, blockSize_ + 1)>>

----------------------------------------------------------------------------
(* Properties of the fan-out *)

(* the subscribers a broadcast of thread t has written its event to *)
WrittenBy(t) == {bcLog[t][i].to : i \in DOMAIN bcLog[t]}

(* thread t is in broadcast, at a Write that has not returned *)
InBroadcastWrite(t) == pc[t] = "broadcast:write" /\ bcPending[t] # <<>>

(* C36: broadcast is a blocking fan-out under the broadcaster mutex: while  *)
(* a Write to one subscriber has not returned, the remaining subscribers do *)
(* not receive that event, the UpdateEdl that triggered the broadcast does  *)
(* not return, and no other broadcast, subscribe or unsubscribe (hence no   *)
(* Subscribe start or termination) can proceed.                             *)
BroadcastBlocks ==
    [][\A t \in Updaters :
          InBroadcastWrite(t) =>
             /\ bcMutex = t
             /\ \A i \in 2..Len(bcPending[t]) : bcPending[t][i] \notin WrittenBy(t)
             /\ WrittenBy(t) \cup Elements(bcPending[t]) = subscribers_
             /\ status[t] = "running"
             /\ pc'[t] = "broadcast:write"
             /\ subscribers_' = subscribers_
             /\ \A u \in Updaters \ {t} :
                   /\ pc[u] # "broadcast:write"
                   /\ pc[u] = "broadcast:lock" => pc'[u] = "broadcast:lock"
             /\ \A s \in Subscribers :
                   /\ pc[s] = "idle" => pc'[s] = "idle"
                   /\ pc'[s] = "done" => pc[s] = "done"
      ]_vars

(* C36 witness: a broadcast has written to s1 and not yet to s2 while the   *)
(* broadcast of the other UpdateEdl waits for the mutex                     *)
BroadcastHalfDelivered ==
    \E t \in Updaters : \E u \in Updaters \ {t} :
        /\ InBroadcastWrite(t)
        /\ WrittenBy(t) = {"s1"}
        /\ bcPending[t] = <<"s2">>
        /\ pc[u] = "broadcast:lock"

(* the EdlApplied events of a stream, in the order they were written *)
AppliedOf(events) == SelectSeq(events, LAMBDA e : e.type = "EdlApplied")

(* the Subscribe call of s has sent its initial events and is connected *)
Listening(s) == s \in subscribers_ /\ pc[s] = "subscribe:loop"

(* C37: event order agrees with store order: after any set of concurrent    *)
(* successful UpdateEdl calls (and any concurrent Subscribe) has completed, *)
(* the last EdlApplied event delivered to each registered subscriber        *)
(* carries the revision of the store's current snapshot.                    *)
LastAppliedIsCurrent ==
    \A s \in Subscribers :
        (/\ Listening(s)
         /\ NoUpdateRunning
         /\ \A u \in Updaters : pc[u] = "done" => status[u] = "OK"
         /\ AppliedOf(stream[s]) # <<>>)
          => LET applied == AppliedOf(stream[s])
             IN applied[Len(applied)].text = current_.revision

(* C38: a subscriber never misses the current EDL: because Subscribe        *)
(* registers with the broadcaster before it reads the store, once its       *)
(* initial events are sent and all in-flight UpdateEdl calls have returned, *)
(* a still-connected subscriber has received at least one EdlApplied whose  *)
(* revision is the store's current revision (when a snapshot exists), for   *)
(* every interleaving of Subscribe with UpdateEdl.                          *)
SubscriberHasCurrent ==
    \A s \in Subscribers :
        (Listening(s) /\ NoUpdateRunning /\ current_.has) =>
            \E i \in DOMAIN stream[s] :
                /\ stream[s][i].type = "EdlApplied"
                /\ stream[s][i].text = current_.revision

(* C38 witness: the store was empty when Subscribe read it, and the         *)
(* EdlApplied of the snapshot now stored reached the stream by a broadcast  *)
SubscriberCaughtUpByBroadcast ==
    \E s \in Subscribers :
        /\ Listening(s)
        /\ NoUpdateRunning
        /\ current_.has
        /\ stream[s] = <<BackendStatusEvent, EdlAppliedEvent(current_)>>
        /\ Len(bcOrder.delivered[s]) = 1

(* thread t is in broadcast, at its Write to the stream s, which has not    *)
(* returned                                                                 *)
InWriteTo(t, s) == InBroadcastWrite(t) /\ Head(bcPending[t]) = s

(* C39: no two threads ever execute Write on the same subscriber stream at  *)
(* the same time: the Subscribe handler's own writes (BackendStatus,        *)
(* initial EdlApplied, Heartbeat) and the writes that broadcast makes to    *)
(* that stream from UpdateEdl threads are mutually exclusive. While the     *)
(* Write of a broadcast to a stream has not returned, only that Write adds  *)
(* an event to the stream.                                                  *)
WritesMutuallyExclusive ==
    [][\A s \in Subscribers : \A t \in Updaters :
          (InWriteTo(t, s) /\ stream'[s] # stream[s]) => bcPending'[t] = Tail(bcPending[t])
      ]_vars

====
